---- MODULE Spec2Model ----
(***************************************************************************)
(* Aether bytecode toolchain: the opcode codec and the program container   *)
(* (src/src/bytecode.rs), the lowering compiler (src/src/compiler.rs) and  *)
(* the stack virtual machine (src/src/vm.rs).                              *)
(*                                                                         *)
(* Data representation.  A byte (u8) is an integer in 0..255.  A String is *)
(* the sequence of its UTF-8 bytes, so the empty string is <<>> and two    *)
(* strings are equal exactly when their byte sequences are.  A Vec is a    *)
(* sequence (Rust index i is TLA+ index i + 1).  A Result is Ok(v) or      *)
(* Err(kind, msg), kind being the AetherError variant.                     *)
(***************************************************************************)
EXTENDS Integers, Sequences, FiniteSets, TLC

VARIABLES
  codec,      \* the last Opcode::to_byte / Opcode::from_byte call
  program,    \* a BytecodeProgram under construction: [constants, code]
  call,       \* the last BytecodeProgram method call and what it returned
  wire,       \* serialize/deserialize: the program, the byte stream, the result
  compiler,   \* a Compiler and what its compile call was given and returned
  vm,         \* a VM: the fields of the struct
  exec,       \* the position of the caller in VM::execute, and its record
  other       \* a second VM and the position of its caller: [vm, exec]

vars == <<codec, program, call, wire, compiler, vm, exec, other>>

----------------------------------------------------------------------------
(* Result<T> and AetherError (src/src/error.rs)                             *)

Ok(v) == [ok |-> TRUE, val |-> v]

Err(kind, msg) == [ok |-> FALSE, kind |-> kind, msg |-> msg]

Byte == 0..255

\* no call made yet, nothing returned
NoCall == [fn |-> "none"]

----------------------------------------------------------------------------
(* Opcode, Opcode::to_byte, Opcode::from_byte (src/src/bytecode.rs)         *)

Opcode ==
  { "PushNull", "PushBool", "PushNumber", "PushString", "Pop",
    "Dup", "LoadVar", "StoreVar", "StoreImmutable", "Add",
    "Sub", "Mul", "Div", "Power", "Root",
    "Equal", "NotEqual", "LessThan", "GreaterThan", "Approx",
    "And", "Or", "Not", "Input", "Output",
    "JsonParse", "Persist", "Query", "Jump", "JumpIfFalse",
    "JumpIfNull", "Call", "Return", "Halt", "MakeArray",
    "MakeObject", "LoopStart", "LoopEnd", "ForEach", "Filter",
    "Reduce", "Split", "Join", "Regex", "Hash",
    "Encrypt", "Decrypt", "TryStart", "TryEnd", "Retry",
    "Async", "Await", "DateTime", "Random", "Delta",
    "Import", "Log", "Debug", "TestStart", "Assert",
    "Mock", "BenchmarkStart", "BenchmarkEnd", "FileHandle", "FileRead",
    "FileWrite", "FileAppend", "Directory", "PathResolve", "DeleteFile",
    "SetPermission", "HttpGet", "HttpPost", "HttpPut", "HttpDelete",
    "HttpPatch", "HttpHead", "HttpOptions", "EnvVar", "ProcessCreate",
    "ShellExec", "MemoryAlloc", "ExitProgram", "SendSignal", "CreateSocket",
    "ListenPort", "ConnectRemote", "PortNumber", "CreatePacket", "Handshake",
    "Sign", "VerifySignature", "CreateStream", "CreateBuffer", "FlushBuffer",
    "EndOfFile", "SkipBytes", "Thread", "Lock", "Emit",
    "Watch", "RegexMatch", "Auth", "PropertyAccess", "Infinity",
    "End" }

\* the match of Opcode::to_byte
OpcodeByte(op) ==
  CASE op = "PushNull" -> 0               \* 0x00
    [] op = "PushBool" -> 1               \* 0x01
    [] op = "PushNumber" -> 2             \* 0x02
    [] op = "PushString" -> 3             \* 0x03
    [] op = "Pop" -> 4                    \* 0x04
    [] op = "Dup" -> 5                    \* 0x05
    [] op = "LoadVar" -> 16               \* 0x10
    [] op = "StoreVar" -> 17              \* 0x11
    [] op = "StoreImmutable" -> 18        \* 0x12
    [] op = "Add" -> 32                   \* 0x20
    [] op = "Sub" -> 33                   \* 0x21
    [] op = "Mul" -> 34                   \* 0x22
    [] op = "Div" -> 35                   \* 0x23
    [] op = "Power" -> 36                 \* 0x24
    [] op = "Root" -> 37                  \* 0x25
    [] op = "Equal" -> 48                 \* 0x30
    [] op = "NotEqual" -> 49              \* 0x31
    [] op = "LessThan" -> 50              \* 0x32
    [] op = "GreaterThan" -> 51           \* 0x33
    [] op = "Approx" -> 52                \* 0x34
    [] op = "And" -> 64                   \* 0x40
    [] op = "Or" -> 65                    \* 0x41
    [] op = "Not" -> 66                   \* 0x42
    [] op = "Input" -> 80                 \* 0x50
    [] op = "Output" -> 81                \* 0x51
    [] op = "JsonParse" -> 96             \* 0x60
    [] op = "Persist" -> 97               \* 0x61
    [] op = "Query" -> 98                 \* 0x62
    [] op = "Jump" -> 112                 \* 0x70
    [] op = "JumpIfFalse" -> 113          \* 0x71
    [] op = "JumpIfNull" -> 114           \* 0x72
    [] op = "Call" -> 115                 \* 0x73
    [] op = "Return" -> 116               \* 0x74
    [] op = "Halt" -> 117                 \* 0x75
    [] op = "MakeArray" -> 128            \* 0x80
    [] op = "MakeObject" -> 129           \* 0x81
    [] op = "LoopStart" -> 144            \* 0x90
    [] op = "LoopEnd" -> 145              \* 0x91
    [] op = "ForEach" -> 160              \* 0xA0
    [] op = "Filter" -> 161               \* 0xA1
    [] op = "Reduce" -> 162               \* 0xA2
    [] op = "Split" -> 163                \* 0xA3
    [] op = "Join" -> 164                 \* 0xA4
    [] op = "Regex" -> 165                \* 0xA5
    [] op = "Hash" -> 166                 \* 0xA6
    [] op = "Encrypt" -> 167              \* 0xA7
    [] op = "Decrypt" -> 168              \* 0xA8
    [] op = "TryStart" -> 169             \* 0xA9
    [] op = "TryEnd" -> 170               \* 0xAA
    [] op = "Retry" -> 171                \* 0xAB
    [] op = "Async" -> 176                \* 0xB0
    [] op = "Await" -> 177                \* 0xB1
    [] op = "DateTime" -> 192             \* 0xC0
    [] op = "Random" -> 193               \* 0xC1
    [] op = "Delta" -> 194                \* 0xC2
    [] op = "Import" -> 208               \* 0xD0
    [] op = "Log" -> 209                  \* 0xD1
    [] op = "Debug" -> 210                \* 0xD2
    [] op = "TestStart" -> 224            \* 0xE0
    [] op = "Assert" -> 225               \* 0xE1
    [] op = "Mock" -> 226                 \* 0xE2
    [] op = "BenchmarkStart" -> 227       \* 0xE3
    [] op = "BenchmarkEnd" -> 228         \* 0xE4
    [] op = "FileHandle" -> 240           \* 0xF0
    [] op = "FileRead" -> 241             \* 0xF1
    [] op = "FileWrite" -> 242            \* 0xF2
    [] op = "FileAppend" -> 243           \* 0xF3
    [] op = "Directory" -> 244            \* 0xF4
    [] op = "PathResolve" -> 245          \* 0xF5
    [] op = "DeleteFile" -> 246           \* 0xF6
    [] op = "SetPermission" -> 247        \* 0xF7
    [] op = "HttpGet" -> 82               \* 0x52
    [] op = "HttpPost" -> 83              \* 0x53
    [] op = "HttpPut" -> 84               \* 0x54
    [] op = "HttpDelete" -> 85            \* 0x55
    [] op = "HttpPatch" -> 86             \* 0x56
    [] op = "HttpHead" -> 87              \* 0x57
    [] op = "HttpOptions" -> 88           \* 0x58
    [] op = "EnvVar" -> 211               \* 0xD3
    [] op = "ProcessCreate" -> 212        \* 0xD4
    [] op = "ShellExec" -> 213            \* 0xD5
    [] op = "MemoryAlloc" -> 214          \* 0xD6
    [] op = "ExitProgram" -> 215          \* 0xD7
    [] op = "SendSignal" -> 216           \* 0xD8
    [] op = "CreateSocket" -> 99          \* 0x63
    [] op = "ListenPort" -> 100           \* 0x64
    [] op = "ConnectRemote" -> 101        \* 0x65
    [] op = "PortNumber" -> 102           \* 0x66
    [] op = "CreatePacket" -> 103         \* 0x67
    [] op = "Handshake" -> 104            \* 0x68
    [] op = "Sign" -> 172                 \* 0xAC
    [] op = "VerifySignature" -> 173      \* 0xAD
    [] op = "CreateStream" -> 130         \* 0x82
    [] op = "CreateBuffer" -> 131         \* 0x83
    [] op = "FlushBuffer" -> 132          \* 0x84
    [] op = "EndOfFile" -> 133            \* 0x85
    [] op = "SkipBytes" -> 134            \* 0x86
    [] op = "Thread" -> 178               \* 0xB2
    [] op = "Lock" -> 179                 \* 0xB3
    [] op = "Emit" -> 180                 \* 0xB4
    [] op = "Watch" -> 181                \* 0xB5
    [] op = "RegexMatch" -> 105           \* 0x69
    [] op = "Auth" -> 106                 \* 0x6A
    [] op = "PropertyAccess" -> 53        \* 0x35
    [] op = "Infinity" -> 38              \* 0x26
    [] op = "End" -> 255                  \* 0xFF

\* the match of Opcode::from_byte
ByteOpcode(byte) ==
  CASE byte = 0 -> Ok("PushNull")             \* 0x00
    [] byte = 1 -> Ok("PushBool")             \* 0x01
    [] byte = 2 -> Ok("PushNumber")           \* 0x02
    [] byte = 3 -> Ok("PushString")           \* 0x03
    [] byte = 4 -> Ok("Pop")                  \* 0x04
    [] byte = 5 -> Ok("Dup")                  \* 0x05
    [] byte = 16 -> Ok("LoadVar")             \* 0x10
    [] byte = 17 -> Ok("StoreVar")            \* 0x11
    [] byte = 18 -> Ok("StoreImmutable")      \* 0x12
    [] byte = 32 -> Ok("Add")                 \* 0x20
    [] byte = 33 -> Ok("Sub")                 \* 0x21
    [] byte = 34 -> Ok("Mul")                 \* 0x22
    [] byte = 35 -> Ok("Div")                 \* 0x23
    [] byte = 36 -> Ok("Power")               \* 0x24
    [] byte = 37 -> Ok("Root")                \* 0x25
    [] byte = 48 -> Ok("Equal")               \* 0x30
    [] byte = 49 -> Ok("NotEqual")            \* 0x31
    [] byte = 50 -> Ok("LessThan")            \* 0x32
    [] byte = 51 -> Ok("GreaterThan")         \* 0x33
    [] byte = 52 -> Ok("Approx")              \* 0x34
    [] byte = 64 -> Ok("And")                 \* 0x40
    [] byte = 65 -> Ok("Or")                  \* 0x41
    [] byte = 66 -> Ok("Not")                 \* 0x42
    [] byte = 80 -> Ok("Input")               \* 0x50
    [] byte = 81 -> Ok("Output")              \* 0x51
    [] byte = 96 -> Ok("JsonParse")           \* 0x60
    [] byte = 97 -> Ok("Persist")             \* 0x61
    [] byte = 98 -> Ok("Query")               \* 0x62
    [] byte = 112 -> Ok("Jump")               \* 0x70
    [] byte = 113 -> Ok("JumpIfFalse")        \* 0x71
    [] byte = 114 -> Ok("JumpIfNull")         \* 0x72
    [] byte = 115 -> Ok("Call")               \* 0x73
    [] byte = 116 -> Ok("Return")             \* 0x74
    [] byte = 117 -> Ok("Halt")               \* 0x75
    [] byte = 128 -> Ok("MakeArray")          \* 0x80
    [] byte = 129 -> Ok("MakeObject")         \* 0x81
    [] byte = 144 -> Ok("LoopStart")          \* 0x90
    [] byte = 145 -> Ok("LoopEnd")            \* 0x91
    [] byte = 160 -> Ok("ForEach")            \* 0xA0
    [] byte = 161 -> Ok("Filter")             \* 0xA1
    [] byte = 162 -> Ok("Reduce")             \* 0xA2
    [] byte = 163 -> Ok("Split")              \* 0xA3
    [] byte = 164 -> Ok("Join")               \* 0xA4
    [] byte = 165 -> Ok("Regex")              \* 0xA5
    [] byte = 166 -> Ok("Hash")               \* 0xA6
    [] byte = 167 -> Ok("Encrypt")            \* 0xA7
    [] byte = 168 -> Ok("Decrypt")            \* 0xA8
    [] byte = 169 -> Ok("TryStart")           \* 0xA9
    [] byte = 170 -> Ok("TryEnd")             \* 0xAA
    [] byte = 171 -> Ok("Retry")              \* 0xAB
    [] byte = 176 -> Ok("Async")              \* 0xB0
    [] byte = 177 -> Ok("Await")              \* 0xB1
    [] byte = 192 -> Ok("DateTime")           \* 0xC0
    [] byte = 193 -> Ok("Random")             \* 0xC1
    [] byte = 194 -> Ok("Delta")              \* 0xC2
    [] byte = 208 -> Ok("Import")             \* 0xD0
    [] byte = 209 -> Ok("Log")                \* 0xD1
    [] byte = 210 -> Ok("Debug")              \* 0xD2
    [] byte = 224 -> Ok("TestStart")          \* 0xE0
    [] byte = 225 -> Ok("Assert")             \* 0xE1
    [] byte = 226 -> Ok("Mock")               \* 0xE2
    [] byte = 227 -> Ok("BenchmarkStart")     \* 0xE3
    [] byte = 228 -> Ok("BenchmarkEnd")       \* 0xE4
    [] byte = 240 -> Ok("FileHandle")         \* 0xF0
    [] byte = 241 -> Ok("FileRead")           \* 0xF1
    [] byte = 242 -> Ok("FileWrite")          \* 0xF2
    [] byte = 243 -> Ok("FileAppend")         \* 0xF3
    [] byte = 244 -> Ok("Directory")          \* 0xF4
    [] byte = 245 -> Ok("PathResolve")        \* 0xF5
    [] byte = 246 -> Ok("DeleteFile")         \* 0xF6
    [] byte = 247 -> Ok("SetPermission")      \* 0xF7
    [] byte = 82 -> Ok("HttpGet")             \* 0x52
    [] byte = 83 -> Ok("HttpPost")            \* 0x53
    [] byte = 84 -> Ok("HttpPut")             \* 0x54
    [] byte = 85 -> Ok("HttpDelete")          \* 0x55
    [] byte = 86 -> Ok("HttpPatch")           \* 0x56
    [] byte = 87 -> Ok("HttpHead")            \* 0x57
    [] byte = 88 -> Ok("HttpOptions")         \* 0x58
    [] byte = 211 -> Ok("EnvVar")             \* 0xD3
    [] byte = 212 -> Ok("ProcessCreate")      \* 0xD4
    [] byte = 213 -> Ok("ShellExec")          \* 0xD5
    [] byte = 214 -> Ok("MemoryAlloc")        \* 0xD6
    [] byte = 215 -> Ok("ExitProgram")        \* 0xD7
    [] byte = 216 -> Ok("SendSignal")         \* 0xD8
    [] byte = 99 -> Ok("CreateSocket")        \* 0x63
    [] byte = 100 -> Ok("ListenPort")         \* 0x64
    [] byte = 101 -> Ok("ConnectRemote")      \* 0x65
    [] byte = 102 -> Ok("PortNumber")         \* 0x66
    [] byte = 103 -> Ok("CreatePacket")       \* 0x67
    [] byte = 104 -> Ok("Handshake")          \* 0x68
    [] byte = 172 -> Ok("Sign")               \* 0xAC
    [] byte = 173 -> Ok("VerifySignature")    \* 0xAD
    [] byte = 130 -> Ok("CreateStream")       \* 0x82
    [] byte = 131 -> Ok("CreateBuffer")       \* 0x83
    [] byte = 132 -> Ok("FlushBuffer")        \* 0x84
    [] byte = 133 -> Ok("EndOfFile")          \* 0x85
    [] byte = 134 -> Ok("SkipBytes")          \* 0x86
    [] byte = 178 -> Ok("Thread")             \* 0xB2
    [] byte = 179 -> Ok("Lock")               \* 0xB3
    [] byte = 180 -> Ok("Emit")               \* 0xB4
    [] byte = 181 -> Ok("Watch")              \* 0xB5
    [] byte = 105 -> Ok("RegexMatch")         \* 0x69
    [] byte = 106 -> Ok("Auth")               \* 0x6A
    [] byte = 53 -> Ok("PropertyAccess")      \* 0x35
    [] byte = 38 -> Ok("Infinity")            \* 0x26
    [] byte = 255 -> Ok("End")                \* 0xFF
    [] OTHER -> Err("BytecodeError", "Unknown opcode")


\* to_byte with Infinity given 0x25, the byte of Root
to_byte_clash(op) == IF op = "Infinity" THEN 37 ELSE OpcodeByte(op)

\* Opcode::to_byte
to_byte(op) == OpcodeByte(op)

\* a decoder that takes a byte no variant encodes for End
from_byte_subst(byte) == IF byte = 6 THEN Ok("End") ELSE ByteOpcode(byte)

\* Opcode::from_byte
from_byte(byte) == ByteOpcode(byte)

----------------------------------------------------------------------------
(* BytecodeProgram (src/src/bytecode.rs)                                    *)

MAGIC_NUMBER == <<65, 69, 66, 0>>        \* [0x41, 0x45, 0x42, 0x00] "AEB\0"

VERSION == 1

\* the four bytes least significant first
u32_to_le_bytes(value) ==
  << value % 256, (value \div 256) % 256,
     (value \div 65536) % 256, (value \div 16777216) % 256 >>

\* u32::to_be_bytes of a value given as usize: `as u32` keeps the low 32
\* bits, which is what taking each of the four bytes modulo 256 does.
u32_to_be_bytes(value) ==
  << (value \div 16777216) % 256, (value \div 65536) % 256,
     (value \div 256) % 256, value % 256 >>

\* u32::from_be_bytes
u32_from_be_bytes(bytes) ==
  ((bytes[1] * 256 + bytes[2]) * 256 + bytes[3]) * 256 + bytes[4]

\* BytecodeProgram::new
NewProgram == [constants |-> <<>>, code |-> <<>>]

\* add_constant without the search for an equal string
add_constant_push(p, value) ==
  [p |-> [p EXCEPT !.constants = Append(@, value)], idx |-> Len(p.constants)]

\* BytecodeProgram::add_constant: the 0-based index of the first equal
\* string when there is one, else the value is pushed and gets index len.
add_constant(p, value) ==
  IF \E i \in 1..Len(p.constants) : p.constants[i] = value
  THEN [p |-> p,
        idx |-> (CHOOSE i \in 1..Len(p.constants) :
                   /\ p.constants[i] = value
                   /\ \A j \in 1..(i - 1) : p.constants[j] # value) - 1]
  ELSE [p |-> [p EXCEPT !.constants = Append(@, value)],
        idx |-> Len(p.constants)]

\* BytecodeProgram::emit_opcode
emit_opcode(p, opcode) == [p EXCEPT !.code = Append(@, to_byte(opcode))]

\* BytecodeProgram::emit_u8
emit_u8(p, value) == [p EXCEPT !.code = Append(@, value)]

\* BytecodeProgram::emit_u32
emit_u32(p, value) == [p EXCEPT !.code = @ \o u32_to_be_bytes(value)]

\* BytecodeProgram::position
position(p) == Len(p.code)

\* a patch_u32 that writes the bytes of the value lowest first
patch_u32_le(p, pos, value) ==
  [p EXCEPT !.code = [i \in 1..Len(@) |->
      IF i - 1 >= pos /\ i - 1 < pos + 4
      THEN u32_to_be_bytes(value)[5 - (i - pos)]
      ELSE @[i]]]

\* BytecodeProgram::patch_u32: code[position..position + 4] is overwritten
\* (the slice panics when position + 4 > code.len(); callers stay in range).
patch_u32(p, pos, value) ==
  [p EXCEPT !.code = [i \in 1..Len(@) |->
      IF i - 1 >= pos /\ i - 1 < pos + 4
      THEN u32_to_be_bytes(value)[i - pos]
      ELSE @[i]]]

----------------------------------------------------------------------------
(* serialize / deserialize: the .aeb container                              *)

RECURSIVE write_constants(_)
\* the loop of serialize over self.constants: 4-byte BE length, then bytes
write_constants(constants) ==
  IF constants = <<>> THEN <<>>
  ELSE u32_to_be_bytes(Len(Head(constants))) \o Head(constants)
         \o write_constants(Tail(constants))

\* BytecodeProgram::serialize into a writer that accepts every write (a
\* Vec<u8>): the bytes written, in order.
serialize(p) ==
  MAGIC_NUMBER \o <<VERSION>>
    \o u32_to_be_bytes(Len(p.constants)) \o write_constants(p.constants)
    \o u32_to_be_bytes(Len(p.code)) \o p.code

\* a read that leaves the zero-filled buffer short instead of failing
read_short(r, pos, n) ==
  Ok([i \in 1..n |-> IF pos + i <= Len(r) THEN r[pos + i] ELSE 0])

\* Read::read_exact of n bytes at offset pos of the reader's bytes
read_exact(r, pos, n) ==
  IF pos + n <= Len(r) THEN Ok(SubSeq(r, pos + 1, pos + n))
  ELSE Err("IoError", "failed to fill whole buffer")

\* a continuation byte 0x80..0xBF
IsCont(b) == b >= 128 /\ b <= 191

RECURSIVE from_utf8(_)
\* String::from_utf8: TRUE when the bytes are well-formed UTF-8
from_utf8(bytes) ==
  IF bytes = <<>> THEN TRUE
  ELSE LET b == bytes[1]
           n == Len(bytes)
           rest(k) == SubSeq(bytes, k + 1, n)
       IN IF b <= 127 THEN from_utf8(rest(1))
          ELSE IF b >= 194 /\ b <= 223
            THEN n >= 2 /\ IsCont(bytes[2]) /\ from_utf8(rest(2))
          ELSE IF b >= 224 /\ b <= 239
            THEN /\ n >= 3
                 /\ IsCont(bytes[2]) /\ IsCont(bytes[3])
                 /\ (b = 224 => bytes[2] >= 160)
                 /\ (b = 237 => bytes[2] <= 159)
                 /\ from_utf8(rest(3))
          ELSE IF b >= 240 /\ b <= 244
            THEN /\ n >= 4
                 /\ IsCont(bytes[2]) /\ IsCont(bytes[3]) /\ IsCont(bytes[4])
                 /\ (b = 240 => bytes[2] >= 144)
                 /\ (b = 244 => bytes[2] <= 143)
                 /\ from_utf8(rest(4))
          ELSE FALSE

\* a comparison of the first three magic bytes only
magic_prefix_ok(magic) == SubSeq(magic, 1, 3) = SubSeq(MAGIC_NUMBER, 1, 3)

\* `magic != MAGIC_NUMBER` of deserialize, negated
magic_ok(magic) == magic = MAGIC_NUMBER

\* `version[0] != VERSION` of deserialize, negated
version_ok(version) == version[1] = VERSION

\* what deserialize returns, with the reader offset it had reached
Returned(res, pos) == [res |-> res, pos |-> pos]

RECURSIVE read_constants(_, _, _, _)
\* the loop `for _ in 0..const_count` of deserialize
read_constants(r, pos, count, constants) ==
  IF count = 0 THEN Returned(Ok(constants), pos)
  ELSE
    LET len_bytes == read_exact(r, pos, 4)
        len == u32_from_be_bytes(len_bytes.val)
        bytes == read_exact(r, pos + 4, len)
    IN IF ~len_bytes.ok
         THEN Returned(Err("IoError", "Failed to read constant length"), pos)
       ELSE IF ~bytes.ok
         THEN Returned(Err("IoError", "Failed to read constant"), pos + 4)
       ELSE IF ~from_utf8(bytes.val)
         THEN Returned(Err("BytecodeError", "Invalid UTF-8 in constant"),
                       pos + 4 + len)
       ELSE read_constants(r, pos + 4 + len, count - 1,
                           Append(constants, bytes.val))

\* BytecodeProgram::deserialize from a reader holding the bytes r
deserialize(r) ==
  LET magic == read_exact(r, 0, 4)
      version == read_exact(r, 4, 1)
      const_count_bytes == read_exact(r, 5, 4)
      constants ==
        read_constants(r, 9, u32_from_be_bytes(const_count_bytes.val), <<>>)
      code_size_bytes == read_exact(r, constants.pos, 4)
      code_size == u32_from_be_bytes(code_size_bytes.val)
      code == read_exact(r, constants.pos + 4, code_size)
  IN IF ~magic.ok
       THEN Returned(Err("IoError", "Failed to read magic number"), 0)
     ELSE IF ~magic_ok(magic.val)
       THEN Returned(Err("BytecodeError", "Invalid magic number"), 4)
     ELSE IF ~version.ok
       THEN Returned(Err("IoError", "Failed to read version"), 4)
     ELSE IF ~version_ok(version.val)
       THEN Returned(Err("BytecodeError", "Unsupported bytecode version"), 5)
     ELSE IF ~const_count_bytes.ok
       THEN Returned(Err("IoError", "Failed to read constant count"), 5)
     ELSE IF ~constants.res.ok
       THEN constants
     ELSE IF ~code_size_bytes.ok
       THEN Returned(Err("IoError", "Failed to read code size"), constants.pos)
     ELSE IF ~code.ok
       THEN Returned(Err("IoError", "Failed to read code"), constants.pos + 4)
     ELSE Returned(Ok([constants |-> constants.res.val, code |-> code.val]),
                   constants.pos + 4 + code_size)

----------------------------------------------------------------------------
(* f64.  A number is [int |-> i] when it is an integer of magnitude below   *)
(* 2^21 (+0.0 included), and otherwise [bits |-> its eight IEEE-754 bytes], *)
(* big-endian: fractions, large values, -0.0, the infinities and the NaNs.  *)
(* Arithmetic is computed on integers; a result outside them is             *)
(* Unmodelled, which the programs of the specifications below never reach.  *)

Whole(i) == [int |-> i]

Bits(bytes) == [bits |-> bytes]

Unmodelled(what) == [unmodelled |-> what]

IsInt(x) == DOMAIN x = {"int"}

Abs(i) == IF i < 0 THEN -i ELSE i

RECURSIVE Pow2(_)
Pow2(e) == IF e = 0 THEN 1 ELSE 2 * Pow2(e - 1)

\* the exponent of the leading bit of a positive integer below 2^21
Log2(a) == CHOOSE e \in 0..20 : Pow2(e) <= a /\ a < Pow2(e + 1)

\* f64::to_be_bytes: sign bit, 11-bit biased exponent, 52-bit fraction
f64_to_be_bytes(x) ==
  IF "bits" \in DOMAIN x THEN x.bits
  ELSE IF x.int = 0 THEN <<0, 0, 0, 0, 0, 0, 0, 0>>
  ELSE LET a == Abs(x.int)
           e == Log2(a)
           biased == 1023 + e
           top20 == (a - Pow2(e)) * Pow2(20 - e)   \* fraction bits 51..32
       IN << (IF x.int < 0 THEN 128 ELSE 0) + biased \div 16,
             (biased % 16) * 16 + top20 \div 65536,
             (top20 \div 256) % 256, top20 % 256, 0, 0, 0, 0 >>

\* f64::from_be_bytes
f64_from_be_bytes(bytes) ==
  LET biased == (bytes[1] % 128) * 16 + bytes[2] \div 16
      e == biased - 1023
      top20 == (bytes[2] % 16) * 65536 + bytes[3] * 256 + bytes[4]
      low32zero == \A i \in 5..8 : bytes[i] = 0
  IN IF \A i \in 1..8 : bytes[i] = 0 THEN Whole(0)
     ELSE IF low32zero /\ e >= 0 /\ e <= 20 /\ top20 % Pow2(20 - e) = 0
       THEN LET a == Pow2(e) + top20 \div Pow2(20 - e)
            IN Whole(IF bytes[1] >= 128 THEN -a ELSE a)
     ELSE Bits(bytes)

\* exponent all ones and a non-zero fraction
IsNaN(x) ==
  /\ "bits" \in DOMAIN x
  /\ x.bits[1] % 128 = 127 /\ x.bits[2] >= 240
  /\ \/ x.bits[2] > 240
     \/ \E i \in 3..8 : x.bits[i] # 0

\* +0.0 or -0.0
IsZero(x) ==
  \/ IsInt(x) /\ x.int = 0
  \/ "bits" \in DOMAIN x /\ x.bits = <<128, 0, 0, 0, 0, 0, 0, 0>>

RECURSIVE BytesLess(_, _)
\* lexicographic order of two byte strings of one length
BytesLess(a, b) ==
  /\ a # <<>>
  /\ \/ a[1] < b[1]
     \/ a[1] = b[1] /\ BytesLess(Tail(a), Tail(b))

\* `left < right` on f64: false with a NaN, zeros are equal, else the order
\* of sign and magnitude, which is the order of the bit patterns.
f64_lt(left, right) ==
  IF \/ ~(IsInt(left) \/ "bits" \in DOMAIN left)
     \/ ~(IsInt(right) \/ "bits" \in DOMAIN right)
    THEN FALSE
  ELSE IF IsInt(left) /\ IsInt(right) THEN left.int < right.int
  ELSE IF IsNaN(left) \/ IsNaN(right) THEN FALSE
  ELSE IF IsZero(left) /\ IsZero(right) THEN FALSE
  ELSE LET l == f64_to_be_bytes(left)
           r == f64_to_be_bytes(right)
           lneg == l[1] >= 128
           rneg == r[1] >= 128
       IN IF lneg /\ ~rneg THEN TRUE
          ELSE IF ~lneg /\ rneg THEN FALSE
          ELSE IF lneg THEN BytesLess([r EXCEPT ![1] = @ % 128],
                                      [l EXCEPT ![1] = @ % 128])
          ELSE BytesLess(l, r)

\* `left == right` on f64
f64_eq(left, right) ==
  IF IsNaN(left) \/ IsNaN(right) THEN FALSE
  ELSE IF IsZero(left) /\ IsZero(right) THEN TRUE
  ELSE left = right

IntResult(what, i) ==
  IF Abs(i) < Pow2(21) THEN Whole(i) ELSE Unmodelled(what)

f64_add(left, right) ==
  IF IsInt(left) /\ IsInt(right) THEN IntResult("add", left.int + right.int)
  ELSE Unmodelled("add")

f64_sub(left, right) ==
  IF IsInt(left) /\ IsInt(right) THEN IntResult("sub", left.int - right.int)
  ELSE Unmodelled("sub")

f64_mul(left, right) ==
  IF IsInt(left) /\ IsInt(right) /\ Abs(left.int) <= 1024 /\ Abs(right.int) <= 1024
    THEN Whole(left.int * right.int)
  ELSE Unmodelled("mul")

\* left / right for a non-zero right
f64_div(left, right) ==
  IF IsInt(left) /\ IsInt(right) /\ left.int % Abs(right.int) = 0
    THEN Whole((left.int \div Abs(right.int))
               * (IF right.int < 0 THEN -1 ELSE 1))
  ELSE Unmodelled("div")

RECURSIVE IntPow(_, _)
IntPow(b, n) == IF n = 0 THEN 1 ELSE b * IntPow(b, n - 1)

\* f64::powf, for a base of magnitude up to 16 and an exponent in 0..5
f64_powf(left, right) ==
  IF /\ IsInt(left) /\ IsInt(right)
     /\ Abs(left.int) <= 16 /\ right.int >= 0 /\ right.int <= 5
    THEN Whole(IntPow(left.int, right.int))
  ELSE Unmodelled("powf")

\* f64::sqrt
f64_sqrt(value) ==
  IF IsInt(value) /\ \E s \in 0..1448 : s * s = value.int
    THEN Whole(CHOOSE s \in 0..1448 : s * s = value.int)
  ELSE Unmodelled("sqrt")

\* (left - right).abs() < APPROX_EPSILON (0.000001): between integers that
\* is equality; between other numbers only equal ones are taken as close.
approx_eq(left, right) ==
  IF IsInt(left) /\ IsInt(right) THEN left.int = right.int
  ELSE IF IsNaN(left) \/ IsNaN(right) THEN FALSE
  ELSE f64_eq(left, right)

----------------------------------------------------------------------------
(* Value (src/src/runtime.rs).  An Object is a function from its keys.  A   *)
(* string built by format!, by SHA-256 or by the clock is kept as the term  *)
(* that names it, [t |-> "String", of |-> ...]: such a string is not empty. *)

Null == [t |-> "Null"]

Boolean(b) == [t |-> "Boolean", b |-> b]

Number(n) == [t |-> "Number", n |-> n]

String(s) == [t |-> "String", s |-> s]

Array(a) == [t |-> "Array", a |-> a]

Object(o) == [t |-> "Object", o |-> o]

Formatted(how, arg) == [t |-> "String", of |-> how, arg |-> arg]

\* Value::is_null
is_null(v) == v = Null

\* a truth in which only Null and false are false
is_truthy_lenient(v) == v # Null /\ v # Boolean(FALSE)

\* Value::is_truthy
is_truthy(v) ==
  CASE v.t = "Null" -> FALSE
    [] v.t = "Boolean" -> v.b
    [] v.t = "Number" -> ~IsZero(v.n)
    [] v.t = "String" -> ("s" \in DOMAIN v) => v.s # <<>>
    [] v.t = "Array" -> ("a" \in DOMAIN v) => v.a # <<>>
    [] v.t = "Object" -> DOMAIN v.o # {}
    [] OTHER -> TRUE

RECURSIVE value_eq(_, _)
\* the derived PartialEq of Value
value_eq(a, b) ==
  IF a.t # b.t THEN FALSE
  ELSE CASE a.t = "Number" -> f64_eq(a.n, b.n)
         [] a.t = "Array" ->
              /\ Len(a.a) = Len(b.a)
              /\ \A i \in 1..Len(a.a) : value_eq(a.a[i], b.a[i])
         [] a.t = "Object" ->
              /\ DOMAIN a.o = DOMAIN b.o
              /\ \A k \in DOMAIN a.o : value_eq(a.o[k], b.o[k])
         [] OTHER -> a = b

\* BytecodeProgram::emit_f64
emit_f64(p, value) == [p EXCEPT !.code = @ \o f64_to_be_bytes(value)]

----------------------------------------------------------------------------
(* VM (src/src/vm.rs).  vm holds the fields of the struct.  A handler or a  *)
(* helper that can fail returns the VM as it left it together with either a *)
(* value or the error: an error return does not undo what was done before.  *)

DEFAULT_MAX_ITERATIONS == 10000

RuntimeError(msg) == Err("RuntimeError", msg)

\* VM::new
NewVM(p) ==
  [program |-> p, pc |-> 0, stack |-> <<>>, variables |-> <<>>,
   immutable_vars |-> {}, call_stack |-> <<>>,
   max_iterations |-> DEFAULT_MAX_ITERATIONS]

Good(m, val) == [ok |-> TRUE, val |-> val, vm |-> m]

Bad(m, err) == [ok |-> FALSE, err |-> err, vm |-> m]

\* the ways one loop iteration ends: fall through to the next iteration,
\* `break`, or `return Err(..)` (also by `?`); and [ctl |-> "abort"] when
\* the process panics or aborts inside the handler
Continue(m) == [ctl |-> "continue", vm |-> m]

Break(m) == [ctl |-> "break", vm |-> m]

Raise(m, err) == [ctl |-> "return", err |-> err, vm |-> m]

\* `let x = r?; F(x)`
Try(r, F(_, _)) == IF r.ok THEN F(r.vm, r.val) ELSE Raise(r.vm, r.err)

\* VM::read_u8
read_u8(m) ==
  IF m.pc >= Len(m.program.code)
    THEN Bad(m, RuntimeError("Unexpected end of bytecode"))
  ELSE Good([m EXCEPT !.pc = @ + 1], m.program.code[m.pc + 1])

\* VM::read_u32
read_u32(m) ==
  IF m.pc + 4 > Len(m.program.code)
    THEN Bad(m, RuntimeError("Unexpected end of bytecode"))
  ELSE Good([m EXCEPT !.pc = @ + 4],
            u32_from_be_bytes(SubSeq(m.program.code, m.pc + 1, m.pc + 4)))

\* VM::read_f64
read_f64(m) ==
  IF m.pc + 8 > Len(m.program.code)
    THEN Bad(m, RuntimeError("Unexpected end of bytecode"))
  ELSE Good([m EXCEPT !.pc = @ + 8],
            f64_from_be_bytes(SubSeq(m.program.code, m.pc + 1, m.pc + 8)))

\* self.stack.push(value)
push(m, value) == [m EXCEPT !.stack = Append(@, value)]

\* self.stack.pop().ok_or_else(|| RuntimeError("Stack underflow"))
pop(m) ==
  IF m.stack = <<>> THEN Bad(m, RuntimeError("Stack underflow"))
  ELSE Good([m EXCEPT !.stack = SubSeq(@, 1, Len(@) - 1)],
            m.stack[Len(m.stack)])

\* self.stack.last().ok_or_else(|| RuntimeError("Stack underflow"))
last(m) ==
  IF m.stack = <<>> THEN Bad(m, RuntimeError("Stack underflow"))
  ELSE Good(m, m.stack[Len(m.stack)])

\* a pop_number that takes whatever is not a number for 0.0
pop_number_coerced(m) ==
  LET r == pop(m) IN
    IF ~r.ok THEN r
    ELSE IF r.val.t = "Number" THEN Good(r.vm, r.val.n)
    ELSE Good(r.vm, Whole(0))

\* VM::pop_number: the value is popped before its kind is looked at
pop_number(m) ==
  LET r == pop(m) IN
    IF ~r.ok THEN r
    ELSE IF r.val.t = "Number" THEN Good(r.vm, r.val.n)
    ELSE Bad(r.vm, [ok |-> FALSE, kind |-> "RuntimeError",
                    msg |-> "Expected number, got", payload |-> r.val])

\* read_u32 then self.program.constants.get(idx).ok_or_else(..)
read_constant(m) ==
  LET r == read_u32(m) IN
    IF ~r.ok THEN r
    ELSE IF r.val < Len(m.program.constants)
      THEN Good(r.vm, m.program.constants[r.val + 1])
    ELSE Bad(r.vm, [ok |-> FALSE, kind |-> "RuntimeError",
                    msg |-> "Invalid constant index", payload |-> r.val])

\* HashMap::insert
insert(map, key, value) ==
  [k \in DOMAIN map \cup {key} |-> IF k = key THEN value ELSE map[k]]

\* two numbers are popped, right first, and value(left, right) is pushed
Binary(m, value(_, _)) ==
  Try(pop_number(m), LAMBDA m1, right :
    Try(pop_number(m1), LAMBDA m2, left :
      Continue(push(m2, value(left, right)))))

\* two values of any kind are popped, right first
BinaryAny(m, value(_, _)) ==
  Try(pop(m), LAMBDA m1, right :
    Try(pop(m1), LAMBDA m2, left :
      Continue(push(m2, value(left, right)))))

\* one value is popped and value(v) is pushed
Unary(m, value(_)) ==
  Try(pop(m), LAMBDA m1, v : Continue(push(m1, value(v))))

\* a StoreVar that pops the value before it checks the name
ExecStoreVarLate(m) ==
  Try(read_constant(m), LAMBDA m1, name :
    Try(pop(m1), LAMBDA m2, value :
      IF name \in m2.immutable_vars
        THEN Raise(m2, [ok |-> FALSE, kind |-> "RuntimeError",
                        msg |-> "Cannot modify immutable variable",
                        payload |-> name])
      ELSE Continue([m2 EXCEPT !.variables = insert(@, name, value)])))

\* Opcode::StoreVar: the immutability check comes before the pop
ExecStoreVar(m) ==
  Try(read_constant(m), LAMBDA m1, name :
    IF name \in m1.immutable_vars
      THEN Raise(m1, [ok |-> FALSE, kind |-> "RuntimeError",
                      msg |-> "Cannot modify immutable variable",
                      payload |-> name])
    ELSE Try(pop(m1), LAMBDA m2, value :
           Continue([m2 EXCEPT !.variables = insert(@, name, value)])))

\* Opcode::StoreImmutable
ExecStoreImmutable(m) ==
  Try(read_constant(m), LAMBDA m1, name :
    Try(pop(m1), LAMBDA m2, value :
      Continue([m2 EXCEPT !.variables = insert(@, name, value),
                          !.immutable_vars = @ \cup {name}])))

\* a Div without the check of the divisor: x / 0.0 is an infinity (or NaN)
ExecDivIeee(m) ==
  Try(pop_number(m), LAMBDA m1, right :
    Try(pop_number(m1), LAMBDA m2, left :
      IF IsZero(right)
        THEN Continue(push(m2, Number(Bits(<<127, 240, 0, 0, 0, 0, 0, 0>>))))
      ELSE Continue(push(m2, Number(f64_div(left, right))))))

\* Opcode::Div
ExecDiv(m) ==
  Try(pop_number(m), LAMBDA m1, right :
    Try(pop_number(m1), LAMBDA m2, left :
      IF IsZero(right) THEN Raise(m2, RuntimeError("Division by zero"))
      ELSE Continue(push(m2, Number(f64_div(left, right))))))

\* a Jump whose operand is a distance from the byte after it
ExecJumpRelative(m) ==
  Try(read_u32(m), LAMBDA m1, target : Continue([m1 EXCEPT !.pc = @ + target]))

\* Opcode::Jump, and Opcode::LoopEnd, which does the same
ExecJump(m) ==
  Try(read_u32(m), LAMBDA m1, target : Continue([m1 EXCEPT !.pc = target]))

\* Opcode::JumpIfFalse
ExecJumpIfFalse(m) ==
  Try(read_u32(m), LAMBDA m1, target :
    Try(pop(m1), LAMBDA m2, value :
      Continue(IF ~is_truthy(value) THEN [m2 EXCEPT !.pc = target] ELSE m2)))

\* Opcode::JumpIfNull
ExecJumpIfNull(m) ==
  Try(read_u32(m), LAMBDA m1, target :
    Try(last(m1), LAMBDA m2, value :
      Continue(IF is_null(value) THEN [m2 EXCEPT !.pc = target] ELSE m2)))

\* Opcode::Call
ExecCall(m) ==
  Try(read_u32(m), LAMBDA m1, func_idx :
    Try(read_u8(m1), LAMBDA m2, arg_count :
      Continue([m2 EXCEPT !.call_stack = Append(@, m2.pc)])))

\* a Return that takes the oldest address of the call stack
ExecReturnOldest(m) ==
  IF m.call_stack # <<>>
    THEN Continue([m EXCEPT !.pc = m.call_stack[1],
                            !.call_stack = Tail(@)])
  ELSE Break(m)

\* Opcode::Return
ExecReturn(m) ==
  IF m.call_stack # <<>>
    THEN Continue([m EXCEPT !.pc = m.call_stack[Len(m.call_stack)],
                            !.call_stack = SubSeq(@, 1, Len(@) - 1)])
  ELSE Break(m)

\* Opcode::Halt
ExecHalt(m) ==
  Try(pop(m), LAMBDA m1, error_value :
    Raise(m1, [ok |-> FALSE, kind |-> "RuntimeError", msg |-> "Halted with",
               payload |-> error_value]))

RECURSIVE pop_elements(_, _, _)
\* the loop of MakeArray: count pops, each pushed onto elements
pop_elements(m, count, elements) ==
  IF count = 0 THEN Good(m, elements)
  ELSE LET r == pop(m) IN
         IF ~r.ok THEN r
         ELSE pop_elements(r.vm, count - 1, Append(elements, r.val))

Reverse(s) == [i \in 1..Len(s) |-> s[Len(s) + 1 - i]]

RECURSIVE pop_pairs(_, _, _)
\* the loop of MakeObject: a pair whose key is not a String is dropped
pop_pairs(m, count, obj) ==
  IF count = 0 THEN Good(m, obj)
  ELSE LET value == pop(m)
           key == pop(value.vm)
       IN IF ~value.ok THEN value
          ELSE IF ~key.ok THEN key
          ELSE pop_pairs(key.vm, count - 1,
                         IF key.val.t = "String"
                         THEN insert(obj, key.val, value.val) ELSE obj)

\* the `match opcode` of VM::execute: the handler of one decoded opcode, run
\* after the pc has moved past the opcode byte.  env is what the world
\* answers: the random number drawn, the clock, the regex engine.
dispatch(m, opcode, env) ==
  CASE opcode = "PushNull" -> Continue(push(m, Null))
    [] opcode = "PushBool" ->
         Try(read_u8(m), LAMBDA m1, value :
           Continue(push(m1, Boolean(value # 0))))
    [] opcode = "PushNumber" ->
         Try(read_f64(m), LAMBDA m1, value : Continue(push(m1, Number(value))))
    [] opcode = "PushString" ->
         Try(read_constant(m), LAMBDA m1, string :
           Continue(push(m1, String(string))))
    [] opcode = "Pop" ->
         Try(pop(m), LAMBDA m1, v : Continue(m1))
    [] opcode = "Dup" ->
         Try(last(m), LAMBDA m1, value : Continue(push(m1, value)))
    [] opcode = "LoadVar" ->
         Try(read_constant(m), LAMBDA m1, name :
           Continue(push(m1, IF name \in DOMAIN m1.variables
                             THEN m1.variables[name] ELSE Null)))
    [] opcode = "StoreVar" -> ExecStoreVar(m)
    [] opcode = "StoreImmutable" -> ExecStoreImmutable(m)
    [] opcode = "Add" -> Binary(m, LAMBDA l, r : Number(f64_add(l, r)))
    [] opcode = "Sub" -> Binary(m, LAMBDA l, r : Number(f64_sub(l, r)))
    [] opcode = "Mul" -> Binary(m, LAMBDA l, r : Number(f64_mul(l, r)))
    [] opcode = "Div" -> ExecDiv(m)
    [] opcode = "Power" -> Binary(m, LAMBDA l, r : Number(f64_powf(l, r)))
    [] opcode = "Root" ->
         Try(pop_number(m), LAMBDA m1, value :
           Continue(push(m1, Number(f64_sqrt(value)))))
    [] opcode = "Equal" -> BinaryAny(m, LAMBDA l, r : Boolean(value_eq(l, r)))
    [] opcode = "NotEqual" ->
         BinaryAny(m, LAMBDA l, r : Boolean(~value_eq(l, r)))
    [] opcode = "LessThan" -> Binary(m, LAMBDA l, r : Boolean(f64_lt(l, r)))
    [] opcode = "GreaterThan" -> Binary(m, LAMBDA l, r : Boolean(f64_lt(r, l)))
    [] opcode = "Approx" -> Binary(m, LAMBDA l, r : Boolean(approx_eq(l, r)))
    [] opcode = "And" ->
         BinaryAny(m, LAMBDA l, r : Boolean(is_truthy(l) /\ is_truthy(r)))
    [] opcode = "Or" ->
         BinaryAny(m, LAMBDA l, r : Boolean(is_truthy(l) \/ is_truthy(r)))
    [] opcode = "Not" -> Unary(m, LAMBDA v : Boolean(~is_truthy(v)))
    [] opcode = "Input" -> Continue(push(m, Null))
    [] opcode \in {"Output", "JsonParse", "Log"} -> Unary(m, LAMBDA v : v)
    [] opcode = "Persist" ->
         Try(last(m), LAMBDA m1, value : Continue(m1))
    [] opcode = "Query" ->
         Try(last(m), LAMBDA m1, value : Continue(push(m1, value)))
    [] opcode = "Jump" -> ExecJump(m)
    [] opcode = "JumpIfFalse" -> ExecJumpIfFalse(m)
    [] opcode = "JumpIfNull" -> ExecJumpIfNull(m)
    [] opcode = "Call" -> ExecCall(m)
    [] opcode = "Return" -> ExecReturn(m)
    [] opcode = "Halt" -> ExecHalt(m)
    [] opcode = "MakeArray" ->
         \* Vec::with_capacity(count): a Value takes at least 32 bytes, so
         \* from 2^26 elements on the request is 2 GiB or more; where usize
         \* has 32 bits that is a `capacity overflow` panic, elsewhere the
         \* allocator grants it or the process aborts
         Try(read_u32(m), LAMBDA m1, count :
           IF count >= Pow2(26) /\ env.alloc = "failed"
             THEN [ctl |-> "abort", vm |-> m1]
           ELSE Try(pop_elements(m1, count, <<>>), LAMBDA m2, elements :
                  Continue(push(m2, Array(Reverse(elements))))))
    [] opcode = "MakeObject" ->
         Try(read_u32(m), LAMBDA m1, count :
           Try(pop_pairs(m1, count, <<>>), LAMBDA m2, obj :
             Continue(push(m2, Object(obj)))))
    [] opcode = "LoopEnd" -> ExecJump(m)
    [] opcode \in {"LoopStart", "ForEach", "TryStart", "Mock"} ->
         Try(read_u32(m), LAMBDA m1, operand : Continue(m1))
    [] opcode = "Hash" -> Unary(m, LAMBDA v : Formatted("sha256", v))
    [] opcode = "DateTime" -> Continue(push(m, Formatted("rfc3339", env.now)))
    [] opcode = "Random" -> Continue(push(m, Number(env.random)))
    [] opcode = "TestStart" ->
         Try(read_constant(m), LAMBDA m1, name : Continue(m1))
    [] opcode = "Assert" ->
         Try(pop(m), LAMBDA m1, condition :
           IF ~is_truthy(condition)
             THEN Raise(m1, RuntimeError("Assertion failed"))
           ELSE Continue(m1))
    [] opcode = "Split" ->
         Try(pop(m), LAMBDA m1, delimiter :
           Try(pop(m1), LAMBDA m2, target :
             IF target.t = "String" /\ delimiter.t = "String"
               THEN Continue(push(m2, [t |-> "Array", of |-> "split",
                                       arg |-> <<target, delimiter>>]))
             ELSE Raise(m2, RuntimeError("Split requires string inputs"))))
    [] opcode = "Join" ->
         Try(pop(m), LAMBDA m1, separator :
           Try(pop(m1), LAMBDA m2, elements :
             IF elements.t = "Array" /\ separator.t = "String"
               THEN Continue(push(m2, Formatted("join", <<elements, separator>>)))
             ELSE Raise(m2, RuntimeError("Join requires array and string"))))
    [] opcode = "Regex" ->
         Try(pop(m), LAMBDA m1, target :
           Try(pop(m1), LAMBDA m2, pattern :
             IF pattern.t = "String" /\ target.t = "String"
               THEN IF env.regex = "invalid"
                      THEN Raise(m2, RuntimeError("Invalid regex pattern"))
                    ELSE Continue(push(m2, Boolean(env.regex = "match")))
             ELSE Raise(m2, RuntimeError("Regex requires string inputs"))))
    [] opcode = "Encrypt" ->
         Try(pop(m), LAMBDA m1, key :
           Try(pop(m1), LAMBDA m2, data :
             Continue(push(m2, Formatted("ENCRYPTED", data)))))
    [] opcode = "Decrypt" ->
         Try(pop(m), LAMBDA m1, key :
           Try(pop(m1), LAMBDA m2, data :
             Continue(push(m2, Formatted("DECRYPTED", data)))))
    [] opcode = "Retry" ->
         Try(read_u8(m), LAMBDA m1, max_attempts : Continue(m1))
    [] opcode = "Import" ->
         Try(read_constant(m), LAMBDA m1, module : Continue(push(m1, Null)))
    [] opcode = "FileHandle" -> Unary(m, LAMBDA v : Formatted("FILE", v))
    [] opcode = "FileRead" ->      \* "[FILE CONTENT]"
         Unary(m, LAMBDA v : String(<<91, 70, 73, 76, 69, 32, 67, 79, 78, 84,
                                      69, 78, 84, 93>>))
    [] opcode \in {"FileWrite", "FileAppend"} ->
         Try(pop(m), LAMBDA m1, content :
           Try(pop(m1), LAMBDA m2, handle : Continue(m2)))
    [] opcode \in {"Debug", "Filter", "Reduce", "TryEnd", "Async", "Await",
                   "Delta", "BenchmarkStart", "BenchmarkEnd"} -> Continue(m)
    [] opcode = "End" -> Break(m)
    [] OTHER -> Raise(m, RuntimeError("Unimplemented opcode"))

\* a return after the loop that leaves the stack alone and returns Null
finish_null(m) == Good(m, Null)

\* the return after the loop: Ok(self.stack.pop().unwrap_or(Value::Null))
finish(m) ==
  IF m.stack = <<>> THEN Good(m, Null)
  ELSE Good([m EXCEPT !.stack = SubSeq(@, 1, Len(@) - 1)],
            m.stack[Len(m.stack)])

\* a pass without the ceiling check
iteration_unchecked(m, count, env) ==
  LET opcode == from_byte(m.program.code[m.pc + 1])
  IN IF ~opcode.ok THEN Raise(m, opcode)
     ELSE dispatch([m EXCEPT !.pc = @ + 1], opcode.val, env)

\* One pass of the `while` of VM::execute at iteration count `count` (the
\* value before the pass): the ceiling check, the fetch, the decode, and the
\* handler.  A failed decode returns with the pc still on the byte.
iteration(m, count, env) ==
  IF count + 1 > m.max_iterations
    THEN Raise(m, RuntimeError("Maximum iteration count exceeded"))
  ELSE LET opcode == from_byte(m.program.code[m.pc + 1])
       IN IF ~opcode.ok THEN Raise(m, opcode)
          ELSE dispatch([m EXCEPT !.pc = @ + 1], opcode.val, env)

----------------------------------------------------------------------------
(* Compiler (src/src/compiler.rs).  An AstNode is a record: its variant in  *)
(* kind, its fields under their names (a tuple variant's field under the    *)
(* name compile_node binds it to).  An Option is <<>> or <<x>>.  A          *)
(* LiteralValue is [t |-> "Number", n |-> f64] or [t |-> "String", s |->    *)
(* bytes].  A compile step returns the compiler as it left it, with the     *)
(* error when it failed: what was emitted before a failure stays emitted.   *)

\* the name without its underscore
PIPE_VARIABLE_bare == <<112, 105, 112, 101>>

PIPE_VARIABLE == <<95, 112, 105, 112, 101>>      \* "_pipe"

CompilerError(msg) == Err("CompilerError", msg)

\* Compiler::new.  Next to the three fields of the Compiler a record of its
\* calls is kept for the properties: the offsets at which emit_opcode put an
\* opcode (emitted), the offsets of the emit_u32(0) placeholders (reserved),
\* and the calls of patch_u32 in their order (patched): the offset, the
\* value, and whether the offset was then a placeholder inside the code;
\* and of every Loop arm that ran to its end (loops): its start_pos, its
\* end_pos, the node's condition and the end_patches of the context it
\* popped.
NewCompiler ==
  [program |-> NewProgram, functions |-> <<>>, loop_stack |-> <<>>,
   emitted |-> {}, reserved |-> {}, patched |-> <<>>, loops |-> <<>>]

Done(c) == [ok |-> TRUE, c |-> c]

Failed(c, err) == [ok |-> FALSE, c |-> c, err |-> err]

\* `step?; F(compiler)`
AndThen(r, F(_)) == IF r.ok THEN F(r.c) ELSE r

\* self.program.emit_opcode(opcode)
emit(c, opcode) ==
  [c EXCEPT !.program = emit_opcode(@, opcode),
            !.emitted = @ \cup {position(c.program)}]

\* self.program.emit_u32(value)
operand(c, value) == [c EXCEPT !.program = emit_u32(@, value)]

\* self.program.emit_u32(0); // Placeholder
placeholder(c) ==
  [operand(c, 0) EXCEPT !.reserved = @ \cup {position(c.program)}]

\* a patch that leaves the placeholder as it is
patch_skipped(c, pos, value) == c

\* a patch that is given the offset of the opcode in front of the placeholder
patch_opcode(c, pos, value) ==
  [c EXCEPT !.program = patch_u32(@, pos - 1, value),
            !.patched = Append(@, [pos |-> pos - 1, value |-> value,
                                   slot |-> /\ pos - 1 \in c.reserved
                                            /\ pos + 3 <= position(c.program)])]

\* a patch with the offset one behind the position the compiler is at
patch_past(c, pos, value) ==
  [c EXCEPT !.program = patch_u32(@, pos, value + 1),
            !.patched = Append(@, [pos |-> pos, value |-> value + 1,
                                   slot |-> /\ pos \in c.reserved
                                            /\ pos + 4 <= position(c.program)])]

\* self.program.patch_u32(pos, value)
patch(c, pos, value) ==
  [c EXCEPT !.program = patch_u32(@, pos, value),
            !.patched = Append(@, [pos |-> pos, value |-> value,
                                   slot |-> /\ pos \in c.reserved
                                            /\ pos + 4 <= position(c.program)])]

\* let idx = self.program.add_constant(s); emit_opcode(opcode); emit_u32(idx)
op_constant(c, s, opcode) ==
  LET added == add_constant(c.program, s)
  IN operand(emit([c EXCEPT !.program = added.p], opcode), added.idx)

\* Compiler::emit_number
emit_number(c, value) ==
  [c EXCEPT !.program = emit_f64(emit_opcode(@, "PushNumber"), value),
            !.emitted = @ \cup {position(c.program)}]

\* a compile_literal that emits PushString 0 and leaves the pool alone
compile_literal_unpooled(c, lit) ==
  IF lit.t = "String" THEN Done(operand(emit(c, "PushString"), 0))
  ELSE Done(emit_number(c, lit.n))

\* Compiler::compile_literal
compile_literal(c, lit) ==
  IF lit.t = "String" THEN Done(op_constant(c, lit.s, "PushString"))
  ELSE Done(emit_number(c, lit.n))

\* the arms of compile_node that emit the opcodes `before`, compile the named
\* children in order, and emit the opcodes `after`
Lowered(before, children, after) ==
  [before |-> before, children |-> children, after |-> after]

Lowering(kind) ==
  CASE kind = "Input" -> Lowered(<<>>, <<>>, <<"Input">>)
    [] kind = "DateTime" -> Lowered(<<>>, <<>>, <<"DateTime">>)
    [] kind = "Random" -> Lowered(<<>>, <<>>, <<"Random">>)
    [] kind = "Debug" -> Lowered(<<>>, <<>>, <<"Debug">>)
    [] kind = "Empty" -> Lowered(<<>>, <<>>, <<"PushNull">>)
    [] kind = "EndOfFile" -> Lowered(<<>>, <<>>, <<"EndOfFile">>)
    [] kind = "Infinity" -> Lowered(<<>>, <<>>, <<"Infinity">>)
    [] kind = "Pipe" -> Lowered(<<>>, <<"source", "operation">>, <<>>)
    [] kind = "Output" -> Lowered(<<>>, <<"value">>, <<"Output">>)
    [] kind = "JsonParse" -> Lowered(<<>>, <<"value">>, <<"JsonParse">>)
    [] kind = "Persist" -> Lowered(<<>>, <<"value">>, <<"Persist">>)
    [] kind = "Halt" -> Lowered(<<>>, <<"value">>, <<"Halt">>)
    [] kind = "Filter" -> Lowered(<<>>, <<"predicate">>, <<"Filter">>)
    [] kind = "Reduce" -> Lowered(<<>>, <<"initial", "operation">>, <<"Reduce">>)
    [] kind = "Power" -> Lowered(<<>>, <<"base", "exponent">>, <<"Power">>)
    [] kind = "Root" -> Lowered(<<>>, <<"value">>, <<"Root">>)
    [] kind = "Equal" -> Lowered(<<>>, <<"left", "right">>, <<"Equal">>)
    [] kind = "NotEqual" -> Lowered(<<>>, <<"left", "right">>, <<"NotEqual">>)
    [] kind = "And" -> Lowered(<<>>, <<"left", "right">>, <<"And">>)
    [] kind = "Or" -> Lowered(<<>>, <<"left", "right">>, <<"Or">>)
    [] kind = "Not" -> Lowered(<<>>, <<"operand">>, <<"Not">>)
    [] kind = "Approx" -> Lowered(<<>>, <<"left", "right">>, <<"Approx">>)
    [] kind = "Hash" -> Lowered(<<>>, <<"data">>, <<"Hash">>)
    [] kind = "Encrypt" -> Lowered(<<>>, <<"data", "key">>, <<"Encrypt">>)
    [] kind = "Decrypt" -> Lowered(<<>>, <<"data", "key">>, <<"Decrypt">>)
    [] kind = "Async" -> Lowered(<<"Async">>, <<"body">>, <<>>)
    [] kind = "Await" -> Lowered(<<>>, <<"expression">>, <<"Await">>)
    [] kind = "Log" -> Lowered(<<>>, <<"message">>, <<"Log">>)
    [] kind = "Assert" -> Lowered(<<>>, <<"condition">>, <<"Assert">>)
    [] kind = "Benchmark" ->
         Lowered(<<"BenchmarkStart">>, <<"body">>, <<"BenchmarkEnd">>)
    [] kind = "FileHandle" -> Lowered(<<>>, <<"path">>, <<"FileHandle">>)
    [] kind = "ReadContent" -> Lowered(<<>>, <<"source">>, <<"FileRead">>)
    [] kind = "WriteContent" ->
         Lowered(<<>>, <<"target", "content">>, <<"FileWrite">>)
    [] kind = "AppendContent" ->
         Lowered(<<>>, <<"target", "content">>, <<"FileAppend">>)
    [] kind = "Directory" -> Lowered(<<>>, <<"path">>, <<"Directory">>)
    [] kind = "PathResolve" -> Lowered(<<>>, <<"path">>, <<"PathResolve">>)
    [] kind = "DeleteFile" -> Lowered(<<>>, <<"target">>, <<"DeleteFile">>)
    [] kind = "SetPermission" ->
         Lowered(<<>>, <<"target", "permission">>, <<"SetPermission">>)
    [] kind = "EnvVar" -> Lowered(<<>>, <<"name">>, <<"EnvVar">>)
    [] kind = "ProcessCreate" -> Lowered(<<>>, <<"command">>, <<"ProcessCreate">>)
    [] kind = "ShellExec" -> Lowered(<<>>, <<"command">>, <<"ShellExec">>)
    [] kind = "MemoryAlloc" -> Lowered(<<>>, <<"size">>, <<"MemoryAlloc">>)
    [] kind = "ExitProgram" -> Lowered(<<>>, <<"code">>, <<"ExitProgram">>)
    [] kind = "SendSignal" ->
         Lowered(<<>>, <<"signal", "target">>, <<"SendSignal">>)
    [] kind = "CreateSocket" ->
         Lowered(<<>>, <<"socket_type">>, <<"CreateSocket">>)
    [] kind = "ListenPort" -> Lowered(<<>>, <<"port">>, <<"ListenPort">>)
    [] kind = "ConnectRemote" ->
         Lowered(<<>>, <<"address">>, <<"ConnectRemote">>)
    [] kind = "PortNumber" -> Lowered(<<>>, <<"number">>, <<"PortNumber">>)
    [] kind = "CreatePacket" -> Lowered(<<>>, <<"data">>, <<"CreatePacket">>)
    [] kind = "Handshake" -> Lowered(<<>>, <<"connection">>, <<"Handshake">>)
    [] kind = "Sign" -> Lowered(<<>>, <<"data", "key">>, <<"Sign">>)
    [] kind = "VerifySignature" ->
         Lowered(<<>>, <<"signature", "data", "key">>, <<"VerifySignature">>)
    [] kind = "CreateStream" -> Lowered(<<>>, <<"source">>, <<"CreateStream">>)
    [] kind = "CreateBuffer" -> Lowered(<<>>, <<"size">>, <<"CreateBuffer">>)
    [] kind = "FlushBuffer" -> Lowered(<<>>, <<"target">>, <<"FlushBuffer">>)
    [] kind = "SkipBytes" -> Lowered(<<>>, <<"source", "count">>, <<"SkipBytes">>)
    [] kind = "Thread" -> Lowered(<<"Thread">>, <<"body">>, <<>>)
    [] kind = "Lock" -> Lowered(<<"Lock">>, <<"body">>, <<>>)
    [] kind = "Emit" -> Lowered(<<>>, <<"event">>, <<"Emit">>)
    [] kind = "Watch" -> Lowered(<<>>, <<"event", "handler">>, <<"Watch">>)
    [] kind = "RegexMatch" ->
         Lowered(<<>>, <<"pattern", "target">>, <<"RegexMatch">>)
    [] kind = "Auth" -> Lowered(<<>>, <<"token">>, <<"Auth">>)
    [] kind = "Add" -> Lowered(<<>>, <<"left", "right">>, <<"Add">>)
    [] kind = "Subtract" -> Lowered(<<>>, <<"left", "right">>, <<"Sub">>)
    [] kind = "Multiply" -> Lowered(<<>>, <<"left", "right">>, <<"Mul">>)
    [] kind = "Divide" -> Lowered(<<>>, <<"left", "right">>, <<"Div">>)
    [] kind = "StringConcat" -> Lowered(<<>>, <<"left", "right">>, <<"Join">>)
    [] OTHER -> Lowered(<<>>, <<>>, <<>>)

LoweredKinds ==
  {"Input", "DateTime", "Random", "Debug", "Empty", "EndOfFile", "Infinity",
   "Pipe", "Output", "JsonParse", "Persist", "Halt", "Filter", "Reduce",
   "Power", "Root", "Equal", "NotEqual", "And", "Or", "Not", "Approx", "Hash",
   "Encrypt", "Decrypt", "Async", "Await", "Log", "Assert", "Benchmark",
   "FileHandle", "ReadContent", "WriteContent", "AppendContent", "Directory",
   "PathResolve", "DeleteFile", "SetPermission", "EnvVar", "ProcessCreate",
   "ShellExec", "MemoryAlloc", "ExitProgram", "SendSignal", "CreateSocket",
   "ListenPort", "ConnectRemote", "PortNumber", "CreatePacket", "Handshake",
   "Sign", "VerifySignature", "CreateStream", "CreateBuffer", "FlushBuffer",
   "SkipBytes", "Thread", "Lock", "Emit", "Watch", "RegexMatch", "Auth",
   "Add", "Subtract", "Multiply", "Divide", "StringConcat"}

\* the Http arms: the url, then each optional part or a PushNull in its
\* place, then the opcode of the same name
HttpParts(kind) ==
  IF kind \in {"HttpPost", "HttpPut", "HttpPatch"} THEN <<"body", "headers">>
  ELSE <<"headers">>

RECURSIVE emit_all(_, _)
emit_all(c, opcodes) ==
  IF opcodes = <<>> THEN c ELSE emit_all(emit(c, Head(opcodes)), Tail(opcodes))

\* only the first recorded position is patched
patch_first(p, patches, value) == patch_u32(p, Head(patches), value)

RECURSIVE patch_all(_, _, _)
\* `for patch_pos in ctx.end_patches { self.program.patch_u32(patch_pos, end) }`
patch_all(p, patches, value) ==
  IF patches = <<>> THEN p
  ELSE patch_all(patch_u32(p, Head(patches), value), Tail(patches), value)

RECURSIVE compile_node(_, _)
RECURSIVE compile_nodes(_, _)
RECURSIVE compile_optional(_, _, _)
RECURSIVE compile_pairs(_, _)

\* `for node in nodes { self.compile_node(node)?; }`
compile_nodes(c, nodes) ==
  IF nodes = <<>> THEN Done(c)
  ELSE AndThen(compile_node(c, Head(nodes)),
               LAMBDA c1 : compile_nodes(c1, Tail(nodes)))

\* the parts of an Http node: Some(x) is compiled, None is a PushNull
compile_optional(c, node, parts) ==
  IF parts = <<>> THEN Done(c)
  ELSE AndThen(IF node[Head(parts)] # <<>>
                 THEN compile_node(c, node[Head(parts)][1])
               ELSE Done(emit(c, "PushNull")),
               LAMBDA c1 : compile_optional(c1, node, Tail(parts)))

\* the pairs of an ObjectLiteral: the key as a PushString, then the value
compile_pairs(c, pairs) ==
  IF pairs = <<>> THEN Done(c)
  ELSE AndThen(compile_node(op_constant(c, Head(pairs)[1], "PushString"),
                            Head(pairs)[2]),
               LAMBDA c1 : compile_pairs(c1, Tail(pairs)))

\* Compiler::compile_node
compile_node(c, node) ==
  CASE node.kind \in LoweredKinds ->
         LET how == Lowering(node.kind)
         IN AndThen(compile_nodes(emit_all(c, how.before),
                                  [i \in 1..Len(how.children) |->
                                     node[how.children[i]]]),
                    LAMBDA c1 : Done(emit_all(c1, how.after)))
    [] node.kind \in {"HttpGet", "HttpPost", "HttpPut", "HttpDelete",
                       "HttpPatch", "HttpHead", "HttpOptions"} ->
         AndThen(compile_node(c, node.url), LAMBDA c1 :
           AndThen(compile_optional(c1, node, HttpParts(node.kind)),
                   LAMBDA c2 : Done(emit(c2, node.kind))))
    [] node.kind = "Literal" -> compile_literal(c, node.lit)
    [] node.kind = "Variable" ->
         IF node.name = PIPE_VARIABLE THEN Done(c)
         ELSE Done(op_constant(c, node.name, "LoadVar"))
    [] node.kind = "Sequence" -> compile_nodes(c, node.nodes)
    [] node.kind = "PipeInto" ->
         AndThen(compile_node(c, node.value), LAMBDA c1 :
           Done(op_constant(emit(c1, "Dup"), node.variable, "StoreVar")))
    [] node.kind = "Guard" ->
         AndThen(compile_node(c, node.condition), LAMBDA c1 :
           LET jump_pos == position(c1.program) + 1
           IN AndThen(compile_node(placeholder(emit(c1, "JumpIfNull")),
                                   node.then_branch),
                      LAMBDA c2 :
                        Done(patch(c2, jump_pos, position(c2.program)))))
    [] node.kind = "IfThen" ->
         AndThen(compile_node(c, node.condition), LAMBDA c1 :
           LET jump_else_pos == position(c1.program) + 1
           IN AndThen(compile_node(placeholder(emit(c1, "JumpIfFalse")),
                                   node.then_branch),
                LAMBDA c2 :
                  IF node.else_branch # <<>>
                    THEN LET jump_end_pos == position(c2.program) + 1
                             c3 == placeholder(emit(c2, "Jump"))
                             else_start == position(c3.program)
                         IN AndThen(compile_node(
                                      patch(c3, jump_else_pos, else_start),
                                      node.else_branch[1]),
                              LAMBDA c4 :
                                Done(patch(c4, jump_end_pos,
                                           position(c4.program))))
                  ELSE Done(patch(c2, jump_else_pos, position(c2.program)))))
    [] node.kind = "Loop" ->
         LET start_pos == position(c.program)
             end_patch_pos == start_pos + 1
             c1 == [placeholder(emit(c, "LoopStart")) EXCEPT
                      !.loop_stack = Append(@,
                         [_start_pos |-> start_pos,
                          end_patches |-> <<end_patch_pos>>])]
             cond == IF node.condition # <<>>
                       THEN AndThen(compile_node(c1, node.condition[1]),
                              LAMBDA c2 :
                                Done([placeholder(emit(c2, "JumpIfFalse")) EXCEPT
                                  !.loop_stack[Len(c2.loop_stack)].end_patches
                                     = Append(@, position(c2.program) + 1)]))
                     ELSE Done(c1)
         IN AndThen(cond, LAMBDA c3 :
              AndThen(compile_node(c3, node.body), LAMBDA c4 :
                LET c5 == operand(emit(c4, "LoopEnd"), start_pos)
                    end_pos == position(c5.program)
                    ctx == c5.loop_stack[Len(c5.loop_stack)]
                    popped == [c5 EXCEPT !.loop_stack =
                                 SubSeq(@, 1, Len(@) - 1)]
                IN Done([popped EXCEPT
                           !.program = patch_all(@, ctx.end_patches, end_pos),
                           !.loops = Append(@,
                             [start |-> start_pos, end |-> end_pos,
                              condition |-> node.condition,
                              exits |-> ctx.end_patches]),
                           !.patched = @ \o
                             [i \in 1..Len(ctx.end_patches) |->
                                [pos |-> ctx.end_patches[i],
                                 value |-> end_pos,
                                 slot |-> /\ ctx.end_patches[i] \in c5.reserved
                                          /\ ctx.end_patches[i] + 4
                                               <= end_pos]]])))
    [] node.kind = "ForEach" ->
         AndThen(compile_node(c, node.collection), LAMBDA c1 :
           LET c2 == op_constant(c1, node.variable, "ForEach")
               start_pos == position(c2.program)
           IN AndThen(compile_node(c2, node.body), LAMBDA c3 :
                Done(operand(emit(c3, "LoopEnd"), start_pos))))
    [] node.kind = "Function" ->
         LET added == add_constant(c.program, node.name)
             c1 == [c EXCEPT !.program = added.p,
                             !.functions = insert(@, node.name,
                                                  position(added.p))]
             jump_pos == position(c1.program) + 1
             c2 == placeholder(emit(c1, "Jump"))
             func_start == position(c2.program)
         IN AndThen(compile_node(c2, node.body), LAMBDA c3 :
              LET c4 == emit(c3, "Return")
                  c5 == patch(c4, jump_pos, position(c4.program))
              IN Done(operand(emit(emit_number(c5, Whole(func_start)), "StoreVar"),
                          added.idx)))
    [] node.kind = "TryRescue" ->
         LET rescue_pos == position(c.program) + 1
         IN AndThen(compile_node(placeholder(emit(c, "TryStart")), node.try_body),
              LAMBDA c1 :
                LET c2 == emit(c1, "TryEnd")
                IN IF node.rescue_body # <<>>
                     THEN compile_node(
                            patch(c2, rescue_pos, position(c2.program)),
                            node.rescue_body[1])
                   ELSE Done(c2))
    [] node.kind = "Retry" ->
         compile_node(
           emit(emit_number(c, IF node.max_attempts # <<>>
                             THEN Whole(node.max_attempts[1]) ELSE Whole(3)),
              "Retry"),
           node.body)
    [] node.kind = "Comparison" ->
         AndThen(compile_nodes(c, <<node.left, node.right>>), LAMBDA c1 :
           Done(emit(c1, node.operator)))
    [] node.kind \in {"Split", "Join"} ->
         LET subject == IF node.kind = "Split" THEN node.target
                        ELSE node.elements
             second == IF node.kind = "Split" THEN node.delimiter
                       ELSE node.separator
             default == IF node.kind = "Split" THEN <<32>> ELSE <<>>
         IN AndThen(IF subject.kind # "Empty" THEN compile_node(c, subject)
                    ELSE Done(c),
              LAMBDA c1 :
                AndThen(IF second # <<>> THEN compile_node(c1, second[1])
                        ELSE compile_literal(c1, [t |-> "String",
                                                  s |-> default]),
                        LAMBDA c2 : Done(emit(c2, node.kind))))
    [] node.kind = "Delta" ->
         AndThen(compile_node(c, node.value), LAMBDA c1 :
           Done(emit(op_constant(c1, node.name, "StoreVar"), "Delta")))
    [] node.kind = "Import" -> Done(op_constant(c, node.module, "Import"))
    [] node.kind = "Test" ->
         compile_node(op_constant(c, node.name, "TestStart"), node.body)
    [] node.kind = "Mock" ->
         AndThen(compile_node(c, node.target), LAMBDA c1 :
           Done(operand(emit(c1, "Mock"), 0)))
    [] node.kind = "Immutable" ->
         AndThen(compile_node(c, node.value), LAMBDA c1 :
           Done(op_constant(c1, node.name, "StoreImmutable")))
    [] node.kind = "PropertyAccess" ->
         AndThen(compile_node(c, node.object), LAMBDA c1 :
           Done(emit(op_constant(c1, node.property, "PushString"),
                   "PropertyAccess")))
    [] node.kind = "Modulo" ->
         AndThen(compile_nodes(c, <<node.left, node.right>>), LAMBDA c1 :
           Failed(c1, CompilerError("Modulo not yet supported")))
    [] node.kind = "Length" ->
         AndThen(compile_node(c, node.value), LAMBDA c1 :
           Failed(c1, CompilerError("Length not yet supported")))
    [] node.kind = "Index" ->
         AndThen(compile_nodes(c, <<node.target, node.index>>), LAMBDA c1 :
           Failed(c1, CompilerError("Index not yet supported")))
    [] node.kind = "ArrayLiteral" ->
         AndThen(compile_nodes(c, node.elements), LAMBDA c1 :
           Done(operand(emit(c1, "MakeArray"), Len(node.elements))))
    [] node.kind = "ObjectLiteral" ->
         AndThen(compile_pairs(c, node.pairs), LAMBDA c1 :
           Done(operand(emit(c1, "MakeObject"), Len(node.pairs))))
    [] OTHER -> Failed(c, CompilerError("Unsupported AST node"))

\* a compile that ends the program and returns it whether or not a node
\* was refused
compile_lenient(c, nodes) ==
  LET r == compile_nodes(c, nodes)
  IN [c |-> emit(r.c, "End"), out |-> Ok(emit(r.c, "End").program),
      nodes |-> nodes]

\* Compiler::compile: the compiler after the call and what the call returned
compile(c, nodes) ==
  LET r == compile_nodes(c, nodes)
  IN IF r.ok
       THEN [c |-> emit(r.c, "End"), out |-> Ok(emit(r.c, "End").program),
             nodes |-> nodes]
     ELSE [c |-> r.c, out |-> r.err, nodes |-> nodes]

----------------------------------------------------------------------------
(* Bounds of the model                                                      *)

MaxPool == 5          \* add_constant is not called on a longer pool
MaxWireConsts == 2    \* constants of a serialized program
MaxWireCode == 2      \* code bytes of a serialized program

SeqsUpTo(S, n) == UNION {[1..k -> S] : k \in 0..n}

\* "", "a", "b", "ab", "é" (a two-byte character)
PoolStrings == {<<>>, <<97>>, <<98>>, <<97, 98>>, <<195, 169>>}

WireStrings == {<<>>, <<97>>, <<195, 169>>}

WireBytes == {0, 255}

\* bytes written over a header byte of a stream
CorruptBytes == {0, 2, 65}

----------------------------------------------------------------------------
(* A VM being run.  exec is the position of the caller in VM::execute and   *)
(* its local iteration_count, with a record of the call kept for the        *)
(* properties: how many handlers were dispatched, how often each position   *)
(* was dispatched (visits) and how often with a truthy value on top of the  *)
(* stack (truthy), the byte last fetched and the VM as it was before it     *)
(* (pre), and the stack depth when the loop was left (depth).               *)

NoVM == [state |-> "none"]

\* a Compiler::new() on which compile has not been called
\* (before: the Compiler as the last call found it; clean: the Compiler as
\* it would be had every failed call left it as it found it)
CompilerIdle ==
  compiler = [c |-> NewCompiler, out |-> NoCall, nodes |-> <<>>,
              compiles |-> 0, before |-> NewCompiler, clean |-> NewCompiler]

VMIdle == vm = NoCall /\ exec = NoVM /\ other = [vm |-> NoCall, exec |-> NoVM]

MaxCalls == 2         \* execute() is called at most this often on one VM
MaxCompiles == 2      \* compile() is called at most this often on one Compiler

\* what the world may answer to one instruction
Envs ==
  [random : {Whole(0), Bits(<<63, 224, 0, 0, 0, 0, 0, 0>>)},
   now : {1, 2},
   regex : {"match", "nomatch", "invalid"},
   alloc : {"granted", "failed"}]

\* only Random, DateTime, Regex and MakeArray ask the world anything
EnvsAt(m) ==
  IF /\ m.pc < Len(m.program.code)
     /\ m.program.code[m.pc + 1]
          \in {to_byte("Random"), to_byte("DateTime"), to_byte("Regex"),
               to_byte("MakeArray")}
    THEN Envs
  ELSE {[random |-> Whole(0), now |-> 1, regex |-> "match",
         alloc |-> "granted"]}

\* compiler.compile(nodes), on the Compiler as the calls before left it
Compile(nodes) ==
  /\ compiler.compiles < MaxCompiles
  /\ LET r == compile(compiler.c, nodes)
         expected == compile(compiler.clean, nodes)
     IN compiler' = [c |-> r.c, out |-> r.out, nodes |-> nodes,
                     compiles |-> compiler.compiles + 1,
                     before |-> compiler.c,
                     clean |-> IF expected.out.ok THEN expected.c
                               ELSE compiler.clean]

\* VM::new(p)
VmNew(p) ==
  /\ exec.state = "none"
  /\ vm' = NewVM(p)
  /\ exec' = [state |-> "idle", calls |-> 0]

\* execute() is called: iteration_count = 0; the VM is as the last call, if
\* any, left it
Execute ==
  /\ exec.state \in {"idle", "returned"}
  /\ exec.calls < MaxCalls
  /\ exec' = [state |-> "running", calls |-> exec.calls + 1,
              iteration_count |-> 0, result |-> NoCall, dispatched |-> 0,
              visits |-> [pos \in 0..(Len(vm.program.code) - 1) |-> 0],
              truthy |-> [pos \in 0..(Len(vm.program.code) - 1) |-> 0],
              fetched |-> -1, pre |-> vm, depth |-> -1, entry |-> vm,
              previous |-> IF exec.calls = 0 THEN NoCall ELSE exec.result]
  /\ UNCHANGED vm

\* one pass of the while loop
Step(env) ==
  /\ exec.state = "running"
  /\ vm.pc < Len(vm.program.code)
  /\ LET r == iteration(vm, exec.iteration_count, env)
         checked == exec.iteration_count + 1 <= vm.max_iterations
         byte == vm.program.code[vm.pc + 1]
         decoded == checked /\ from_byte(byte).ok
     IN /\ vm' = r.vm
        /\ exec' = [exec EXCEPT
             !.iteration_count = @ + 1,
             !.state = CASE r.ctl = "continue" -> "running"
                         [] r.ctl = "break" -> "broken"
                         [] r.ctl = "return" -> "returned"
                         [] r.ctl = "abort" -> "aborted",
             !.result = IF r.ctl = "return" THEN r.err ELSE @,
             !.dispatched = IF decoded THEN @ + 1 ELSE @,
             !.visits = IF decoded THEN [@ EXCEPT ![vm.pc] = @ + 1] ELSE @,
             !.truthy = IF /\ decoded /\ vm.stack # <<>>
                           /\ is_truthy(vm.stack[Len(vm.stack)])
                          THEN [@ EXCEPT ![vm.pc] = @ + 1] ELSE @,
             !.fetched = IF checked THEN byte ELSE -1,
             !.pre = vm]

\* a pass with whatever the world answers
Run == exec.state = "running" /\ \E env \in EnvsAt(vm) : Step(env)

\* the loop is left, by its condition or by `break`, and execute() returns
Finish ==
  /\ \/ exec.state = "running" /\ vm.pc >= Len(vm.program.code)
     \/ exec.state = "broken"
  /\ LET r == finish(vm)
     IN /\ vm' = r.vm
        /\ exec' = [exec EXCEPT !.state = "returned", !.result = Ok(r.val),
                                !.depth = Len(vm.stack)]

----------------------------------------------------------------------------
(* The codec driven on its own: every variant is encoded and decoded back,  *)
(* every byte value is decoded.                                             *)

CodecIdle == codec = NoCall

ContainerIdle == program = NewProgram /\ call = NoCall

WireIdle == wire = NoCall

\* nothing has been called yet
Init == CodecIdle /\ ContainerIdle /\ WireIdle /\ CompilerIdle /\ VMIdle

\* op.to_byte() followed by Opcode::from_byte of the byte obtained
EncodeDecode(op) ==
  codec' = [fn |-> "to_byte", op |-> op, byte |-> to_byte(op),
            res |-> from_byte(to_byte(op))]

\* Opcode::from_byte(byte) on an arbitrary byte
Decode(byte) ==
  codec' = [fn |-> "from_byte", byte |-> byte, res |-> from_byte(byte)]

CodecNext ==
  \/ \E op \in Opcode : EncodeDecode(op) /\ UNCHANGED <<program, call, wire, compiler, vm, exec, other>>
  \/ \E byte \in Byte : Decode(byte) /\ UNCHANGED <<program, call, wire, compiler, vm, exec, other>>

----------------------------------------------------------------------------
(* The constant pool driven on its own: add_constant in every order         *)

ContainerInit ==
  /\ program = NewProgram
  /\ call = [fn |-> "new", first |-> <<>>]
  /\ CodecIdle /\ WireIdle /\ CompilerIdle /\ VMIdle

\* program.add_constant(value); call.before is the pool before the call,
\* call.first the index each string got the first time it was added.
AddConstant(value) ==
  /\ Len(program.constants) < MaxPool
  /\ LET r == add_constant(program, value) IN
       /\ program' = r.p
       /\ call' = [fn |-> "add_constant", value |-> value, idx |-> r.idx,
                   before |-> program.constants,
                   first |-> IF value \in DOMAIN call.first THEN call.first
                             ELSE [s \in DOMAIN call.first \cup {value} |->
                                     IF s = value THEN r.idx
                                     ELSE call.first[s]]]

ContainerNext ==
  \E value \in PoolStrings : AddConstant(value) /\ UNCHANGED <<codec, wire, compiler, vm, exec, other>>

----------------------------------------------------------------------------
(* The container format driven on its own: a program is serialized, the     *)
(* stream is possibly cut short or has a header byte overwritten, and is    *)
(* deserialized.                                                            *)

WirePrograms ==
  [constants : SeqsUpTo(WireStrings, MaxWireConsts),
   code : SeqsUpTo(WireBytes, MaxWireCode)]

HeaderLen == Len(MAGIC_NUMBER) + 1

WireInit ==
  \E p \in WirePrograms :
    /\ wire = [p |-> p, stream |-> <<>>, stage |-> "new", res |-> NoCall]
    /\ CodecIdle /\ ContainerIdle /\ CompilerIdle /\ VMIdle

\* p.serialize(&mut buffer)
Serialize ==
  /\ wire.stage = "new"
  /\ wire' = [wire EXCEPT !.stream = serialize(wire.p), !.stage = "written"]

\* the stream is cut to a strict prefix
Truncate(n) ==
  /\ wire.stage = "written" /\ wire.res = NoCall
  /\ wire' = [wire EXCEPT !.stream = SubSeq(@, 1, n), !.stage = "truncated"]

\* one byte of the magic number or the version byte is overwritten
Corrupt(i, b) ==
  /\ wire.stage \in {"written", "truncated"} /\ wire.res = NoCall
  /\ i <= Len(wire.stream) /\ wire.stream[i] # b
  /\ wire' = [wire EXCEPT !.stream[i] = b, !.stage = "corrupted"]

\* BytecodeProgram::deserialize(&mut Cursor::new(stream))
Deserialize ==
  /\ wire.stage # "new" /\ wire.res = NoCall
  /\ wire' = [wire EXCEPT !.res = [fn |-> "deserialize",
                                   out |-> deserialize(wire.stream)]]

WireNext ==
  \/ Serialize /\ UNCHANGED <<codec, program, call, compiler, vm, exec, other>>
  \/ \E n \in 0..(Len(wire.stream) - 1) :
       Truncate(n) /\ UNCHANGED <<codec, program, call, compiler, vm, exec, other>>
  \/ \E i \in 1..HeaderLen, b \in CorruptBytes :
       Corrupt(i, b) /\ UNCHANGED <<codec, program, call, compiler, vm, exec, other>>
  \/ Deserialize /\ UNCHANGED <<codec, program, call, compiler, vm, exec, other>>

----------------------------------------------------------------------------
(* The VM driven on programs of arbitrary bytes: every byte value as the    *)
(* first instruction and as the instruction after a PushNull or a           *)
(* PushNumber, alone, with a whole 4-byte operand and with three bytes of   *)
(* one; constant indices inside and outside the pool; array sizes up to     *)
(* 2^31 - 1; every arithmetic and comparison opcode on every pair of kinds  *)
(* of operand; every jump on every kind of value, to a later instruction,   *)
(* to the end of the code and beyond it; Not, Assert, And and Or on every   *)
(* kind of value; and calls and returns.                                    *)

RawPrograms ==
  LET \* Null, true, "a", 0.0, -0.0, 1.0, 6.0, NaN and +infinity are pushed
      Pushes ==
        {<<to_byte("PushNull")>>, <<to_byte("PushBool"), 1>>,
         <<to_byte("PushString"), 0, 0, 0, 0>>}
          \cup {<<to_byte("PushNumber")>> \o <<hi, lo, 0, 0, 0, 0, 0, 0>> :
                  <<hi, lo>> \in {<<0, 0>>, <<128, 0>>, <<63, 240>>,
                                  <<64, 24>>, <<127, 248>>, <<127, 240>>}}
      \* the same, and false, "", [], [Null], {} and {"a": Null}
      Values ==
        Pushes
          \cup {<<to_byte("PushBool"), 0>>,
                <<to_byte("PushString"), 0, 0, 0, 1>>,
                <<to_byte("MakeArray"), 0, 0, 0, 0>>,
                <<to_byte("PushNull"), to_byte("MakeArray"), 0, 0, 0, 1>>,
                <<to_byte("MakeObject"), 0, 0, 0, 0>>,
                <<to_byte("PushString"), 0, 0, 0, 0, to_byte("PushNull"),
                  to_byte("MakeObject"), 0, 0, 0, 1>>}
      \* a value, then a jump over one instruction, to the end of the code
      \* or beyond it
      Jumps ==
        {v \o <<to_byte(op), 0, 0, 0, Len(v) + 5 + skip>>
           \o <<to_byte("PushBool"), 1, to_byte("PushNull")>> :
           v \in Values,
           op \in {"Jump", "JumpIfFalse", "JumpIfNull", "LoopEnd"},
           skip \in {2, 3, 4}}
      \* the opcodes that ask for the truth of a value, on every value
      Truths ==
        {v \o <<to_byte(op)>> : v \in Values, op \in {"Not", "Assert"}}
          \cup {v \o w \o <<to_byte(op)>> :
                  v \in Values, w \in Values, op \in {"And", "Or"}}
      \* calls one behind the other, with a Return or two behind them and
      \* with none, on an empty stack and on a stack that holds a value
      Calls ==
        {v \o calls \o returns :
           v \in {<<>>, <<to_byte("PushBool"), 1>>},
           calls \in {<<to_byte("Call"), 0, 0, 0, 0, 0>>,
                      <<to_byte("Call"), 0, 0, 0, 7, 2>>,
                      <<to_byte("Call"), 0, 0, 0, 0, 0,
                        to_byte("Call"), 0, 0, 0, 1, 1>>,
                      <<to_byte("Call"), 0, 0, 0, 0>>},
           returns \in {<<>>, <<to_byte("Return")>>,
                        <<to_byte("Return"), to_byte("Return")>>,
                        <<to_byte("Return"), to_byte("PushNull")>>}}
  IN
  [constants : {<< <<97>>, <<>> >>}, code : Jumps \cup Truths \cup Calls]
  \cup
  [constants : {<< <<97>> >>},
   code : {<<b>> : b \in Byte}
            \cup {left \o right \o <<to_byte(op)>> :
                    left \in Pushes, right \in Pushes,
                    op \in {"Add", "Sub", "Mul", "Div", "Power", "Root",
                            "Equal", "NotEqual", "LessThan", "GreaterThan",
                            "Approx"}}
            \cup {<<b, 0, 0, 0>> : b \in Byte}
            \cup {<<b, 0, 0, 0, 5>> : b \in Byte}
            \cup {<<to_byte("PushNull"), b>> : b \in Byte}
            \cup {<<to_byte("PushNull"), b, 0, 0, 0, 6>> : b \in Byte}
            \cup {<<to_byte("PushNumber"), 0, 0, 0, 0, 0, 0, 0, 0, b>> :
                    b \in Byte}
            \cup {prefix \o <<to_byte(op), 0, 0, 0, 0>> :
                    prefix \in {<<>>, <<to_byte("PushNull")>>},
                    op \in {"PushString", "LoadVar", "StoreVar",
                            "StoreImmutable", "TestStart", "Import"}}
            \cup {prefix \o <<to_byte("MakeArray")>> \o count :
                    prefix \in {<<>>, <<to_byte("PushNull")>>},
                    count \in {<<0, 0, 0, 1>>, <<3, 255, 255, 255>>,
                               <<4, 0, 0, 0>>, <<127, 255, 255, 255>>}}]

RawNext ==
  \/ \E p \in RawPrograms : VmNew(p) /\ UNCHANGED <<codec, program, call, wire, compiler, other>>
  \/ Execute /\ UNCHANGED <<codec, program, call, wire, compiler, other>>
  \/ Run /\ UNCHANGED <<codec, program, call, wire, compiler, other>>
  \/ Finish /\ UNCHANGED <<codec, program, call, wire, compiler, other>>

----------------------------------------------------------------------------
(* The compiler and the VM together: one source is compiled, the program    *)
(* is given to a new VM, and execute() is called.                           *)

Num(i) == [kind |-> "Literal", lit |-> [t |-> "Number", n |-> Whole(i)]]

Str(s) == [kind |-> "Literal", lit |-> [t |-> "String", s |-> s]]

Var(name) == [kind |-> "Variable", name |-> name]

Empty == [kind |-> "Empty"]

\* a node of a kind of the Lowering table, every child being `child`
Plain(kind, child) ==
  [f \in {"kind"} \cup {Lowering(kind).children[i] :
                          i \in 1..Len(Lowering(kind).children)} |->
     IF f = "kind" THEN kind ELSE child]

\* Every kind compile_node has an arm for, with and without its optional
\* children.  A Loop here has a condition that is false at once: the loops
\* that run are in LoopSources and CeilingSources.
AcceptedNodes ==
  LET Leaves == {Num(0), Num(1), Str(<<97>>), Empty}
      Options(S) == {<<>>} \cup {<<x>> : x \in S}
  IN
  Leaves
    \cup {Var(<<120>>), Var(PIPE_VARIABLE), Str(<<>>)}
    \cup {Plain(k, leaf) : k \in LoweredKinds, leaf \in Leaves}
    \cup {[kind |-> k, url |-> Str(<<97>>), headers |-> h] :
            k \in {"HttpGet", "HttpDelete", "HttpHead", "HttpOptions"},
            h \in Options({Empty})}
    \cup {[kind |-> k, url |-> Str(<<97>>), body |-> b, headers |-> h] :
            k \in {"HttpPost", "HttpPut", "HttpPatch"},
            b \in Options({Num(1)}), h \in Options({Empty})}
    \cup {[kind |-> "Sequence", nodes |-> s] :
            s \in {<<>>, <<Num(1)>>, <<Num(1), Num(0)>>}}
    \cup {[kind |-> "PipeInto", value |-> v, variable |-> <<120>>] : v \in Leaves}
    \cup {[kind |-> "Guard", condition |-> v, then_branch |-> Num(1)] :
            v \in Leaves}
    \cup {[kind |-> "IfThen", condition |-> v, then_branch |-> Num(1),
           else_branch |-> e] : v \in Leaves, e \in Options({Num(0)})}
    \cup {[kind |-> "Loop", condition |-> <<v>>, body |-> Num(1)] :
            v \in {Num(0), Empty}}
    \cup {[kind |-> "ForEach", variable |-> <<120>>, collection |-> Num(1),
           body |-> Var(PIPE_VARIABLE)]}
    \cup {[kind |-> "Function", name |-> <<102>>, body |-> v] : v \in Leaves}
    \cup {[kind |-> "TryRescue", try_body |-> v, rescue_body |-> r] :
            v \in Leaves, r \in Options({Num(0)})}
    \cup {[kind |-> "Retry", max_attempts |-> a, body |-> v] :
            a \in {<<>>, <<2>>}, v \in Leaves}
    \cup {[kind |-> "Comparison", left |-> v, operator |-> o, right |-> Num(1)] :
            v \in Leaves, o \in {"GreaterThan", "LessThan"}}
    \cup {[kind |-> "Split", target |-> v, delimiter |-> d] :
            v \in Leaves, d \in Options({Str(<<97>>)})}
    \cup {[kind |-> "Join", elements |-> v, separator |-> d] :
            v \in Leaves \cup {[kind |-> "ArrayLiteral", elements |-> <<Num(1)>>]},
            d \in Options({Str(<<97>>)})}
    \cup {[kind |-> "Delta", name |-> <<120>>, value |-> v] : v \in Leaves}
    \cup {[kind |-> "Import", module |-> <<109>>]}
    \cup {[kind |-> "Test", name |-> <<116>>, body |-> v] : v \in Leaves}
    \cup {[kind |-> "Mock", target |-> v] : v \in Leaves}
    \cup {[kind |-> "Immutable", name |-> <<120>>, value |-> v] : v \in Leaves}
    \cup {[kind |-> "PropertyAccess", object |-> v, property |-> <<112>>] :
            v \in Leaves}
    \cup {[kind |-> "ArrayLiteral", elements |-> s] :
            s \in {<<>>, <<Num(1)>>, <<Num(1), Str(<<97>>)>>}}
    \cup {[kind |-> "ObjectLiteral", pairs |-> s] :
            s \in {<<>>, << <<<<107>>, Num(1)>> >>}}

\* The kinds compile_node returns a CompilerError for, alone and inside
\* other nodes, up to three levels down.
RefusedNodes ==
  LET Bare == {[kind |-> "Modulo", left |-> Num(1), right |-> Num(1)],
               [kind |-> "Length", value |-> Str(<<97>>)],
               [kind |-> "Index", target |-> Var(<<120>>), index |-> Num(0)]}
      Around(x) ==
        {[kind |-> "Output", value |-> x],
         [kind |-> "Add", left |-> Num(1), right |-> x],
         [kind |-> "Modulo", left |-> x, right |-> Num(1)],
         [kind |-> "Sequence", nodes |-> <<Num(1), x, Num(0)>>],
         [kind |-> "PipeInto", value |-> x, variable |-> <<120>>],
         [kind |-> "IfThen", condition |-> Num(1), then_branch |-> Num(7),
          else_branch |-> <<x>>],
         [kind |-> "Loop", condition |-> <<Num(0)>>, body |-> x],
         [kind |-> "Function", name |-> <<102>>, body |-> x],
         [kind |-> "TryRescue", try_body |-> Num(1), rescue_body |-> <<x>>],
         [kind |-> "HttpPost", url |-> Str(<<97>>), body |-> <<x>>,
          headers |-> <<>>],
         [kind |-> "ArrayLiteral", elements |-> <<Num(1), x>>],
         [kind |-> "ObjectLiteral", pairs |-> << <<<<107>>, x>> >>]}
      Nested == UNION {Around(x) : x \in Bare}
  IN Bare \cup Nested
       \cup UNION {Around(x) : x \in {y \in Nested : y.kind = "Output"}}

MaxLoop == 3          \* a counting loop runs its body at most this often

IfThen(condition, then_branch, else_branch) ==
  [kind |-> "IfThen", condition |-> condition, then_branch |-> then_branch,
   else_branch |-> else_branch]

PipeInto(value, variable) ==
  [kind |-> "PipeInto", value |-> value, variable |-> variable]

Binary2(kind, left, right) == [kind |-> kind, left |-> left, right |-> right]

Sources ==
  LET
      \* conditions of every kind of Value, truthy and falsy
      Conditions ==
        {Num(0), Num(1), Str(<<>>), Str(<<97>>), Empty, Var(<<120>>),
         Binary2("Equal", Num(1), Num(1)), Binary2("Equal", Num(1), Num(0)),
         [kind |-> "ArrayLiteral", elements |-> <<>>],
         [kind |-> "ArrayLiteral", elements |-> <<Num(0)>>]}
      Branches ==
        {Num(7), [kind |-> "Sequence", nodes |-> <<>>],
         [kind |-> "Output", value |-> Str(<<98>>)],
         IfThen(Var(<<120>>), Num(2), <<Num(3)>>),
         IfThen(Num(0), PipeInto(Num(4), <<121>>), <<>>)}
      \* a conditional with an else branch, after a store and before an output
      IfSources ==
        {<<PipeInto(Num(9), <<120>>), IfThen(c, t, <<e>>),
           [kind |-> "Output", value |-> Var(<<120>>)]>> :
           c \in Conditions, t \in Branches, e \in Branches}
          \cup {<<IfThen(c, Num(7), <<Num(8)>>)>> : c \in Conditions}
      \* x = n; while x { x = x - 1 }; output x  -- and the same loop on x > 0
      LoopSources ==
        {<<PipeInto(Num(n), <<120>>),
           [kind |-> "Loop", condition |-> <<c>>,
            body |-> PipeInto(Binary2("Subtract", Var(<<120>>), Num(1)), <<120>>)],
           [kind |-> "Output", value |-> Var(<<120>>)]>> :
           n \in 0..MaxLoop,
           c \in {Var(<<120>>),
                  [kind |-> "Comparison", left |-> Var(<<120>>),
                   operator |-> "GreaterThan", right |-> Num(0)]}}
      \* PI = 3.14 as Immutable binds it
      Pi == [kind |-> "Immutable", name |-> <<80, 73>>,
             value |-> [kind |-> "Literal",
                        lit |-> [t |-> "Number",
                                 n |-> Bits(<<64, 9, 30, 184, 81, 235, 133,
                                              31>>)]]]
      \* stores to a name after Immutable has bound it
      ImmutableSources ==
        {<<Pi, store, [kind |-> "Output", value |-> Var(<<80, 73>>)]>> :
           store \in {PipeInto(Num(4), <<80, 73>>),
                      PipeInto(Num(4), <<120>>),
                      [kind |-> "Delta", name |-> <<80, 73>>,
                       value |-> Num(4)],
                      [kind |-> "Immutable", name |-> <<80, 73>>,
                       value |-> Num(4)],
                      [kind |-> "Immutable", name |-> <<120>>,
                       value |-> Num(4)]}}
          \cup {<<PipeInto(Num(1), <<80, 73>>), Pi,
                  PipeInto(Num(4), <<80, 73>>)>>}
      \* a statement that fails at run time, and statements after it
      FailingSources ==
        {<<PipeInto(Num(2), <<120>>), failing, after>> :
           failing \in {Binary2("Divide", Num(1), Num(0)),
                        Binary2("Add", Num(1), Str(<<97>>)),
                        [kind |-> "Halt", value |-> Str(<<97>>)]},
           after \in {Num(5), [kind |-> "Output", value |-> Var(<<120>>)]}}
      \* a protected body that fails at run time, with a rescue body
      TrySources ==
        {<<[kind |-> "TryRescue", try_body |-> failing,
            rescue_body |-> <<Num(7)>>]>> :
           failing \in {Binary2("Divide", Num(1), Num(0)),
                        Binary2("Add", Num(1), Str(<<97>>)),
                        [kind |-> "Halt", value |-> Str(<<97>>)],
                        [kind |-> "Add", left |-> Num(1),
                         right |-> Binary2("Divide", Num(1), Num(0))]}}
      Loop(condition, body) ==
        [kind |-> "Loop", condition |-> condition, body |-> body]
      \* loops in loops, loops next to loops, and the other lowerings that
      \* patch, in one another; every loop that is entered is left at once
      NestedSources ==
        {<<Loop(<<Num(0)>>, Loop(<<Num(0)>>, Num(1)))>>,
         <<Loop(<<Num(0)>>, Loop(<<>>, Num(1)))>>,
         <<Loop(<<Num(0)>>, Loop(<<Num(0)>>, Loop(<<Num(0)>>, Num(1))))>>,
         <<Loop(<<Num(0)>>, Num(1)), Loop(<<Num(0)>>, Num(2))>>,
         <<Loop(<<Num(0)>>,
                [kind |-> "Sequence",
                 nodes |-> <<Loop(<<Num(0)>>, Num(1)),
                             Loop(<<Num(0)>>, Num(2))>>])>>,
         <<Loop(<<Num(0)>>,
                IfThen(Num(1), Loop(<<Num(0)>>, Num(1)),
                       <<[kind |-> "Guard", condition |-> Num(1),
                          then_branch |-> Loop(<<Num(0)>>, Num(2))]>>))>>,
         <<IfThen(Num(0), Num(1), <<Loop(<<Num(0)>>, Num(2))>>)>>,
         <<[kind |-> "Guard", condition |-> Num(1),
            then_branch |-> IfThen(Num(1), Num(2), <<Num(3)>>)]>>,
         <<[kind |-> "Function", name |-> <<102>>,
            body |-> Loop(<<Num(0)>>, Num(1))]>>,
         <<[kind |-> "TryRescue",
            try_body |-> [kind |-> "Guard", condition |-> Num(1),
                          then_branch |-> Num(2)],
            rescue_body |-> <<Loop(<<Num(0)>>, Num(1))>>]>>}
      \* a reference to a name, after code that has put names into the pool
      VariableSources ==
        {<<first, Var(name)>> :
           first \in {PipeInto(Num(1), <<121>>), Str(<<120>>),
                      Str(PIPE_VARIABLE), Var(PIPE_VARIABLE)},
           name \in {<<120>>, <<121>>, <<95>>, PIPE_VARIABLE}}
      \* a function declared behind other code, and two functions
      FunctionSources ==
        {<<Num(1), [kind |-> "Function", name |-> <<102>>, body |-> Num(2)]>>,
         <<[kind |-> "Function", name |-> <<102>>, body |-> Str(<<97>>)],
           [kind |-> "Function", name |-> <<103>>,
            body |-> [kind |-> "Output", value |-> Num(2)]]>>}
      \* for x in [1, 2] { output _pipe }; 5
      ForEachSources ==
        {<<[kind |-> "ForEach", variable |-> <<120>>,
            collection |-> [kind |-> "ArrayLiteral",
                            elements |-> <<Num(1), Num(2)>>],
            body |-> [kind |-> "Output", value |-> Var(PIPE_VARIABLE)]],
           Num(5)>>}
  IN {<<node>> : node \in AcceptedNodes \cup RefusedNodes}
       \cup NestedSources \cup VariableSources \cup FunctionSources
       \cup ForEachSources
       \cup {<<Num(1), node>> : node \in RefusedNodes}
       \cup IfSources \cup LoopSources \cup ImmutableSources
       \cup FailingSources \cup TrySources
       \* Output("Hello")
       \cup {<<[kind |-> "Output", value |-> Str(<<72, 101, 108, 108, 111>>)]>>}

CompiledNext ==
  \/ \E nodes \in Sources :
       /\ compiler.out = NoCall
       /\ Compile(nodes)
       /\ UNCHANGED <<codec, program, call, wire, vm, exec, other>>
  \/ /\ compiler.out # NoCall /\ compiler.out.ok
     /\ VmNew(compiler.out.val)
     /\ UNCHANGED <<codec, program, call, wire, compiler, other>>
  \/ Execute /\ UNCHANGED <<codec, program, call, wire, compiler, other>>
  \/ Run /\ UNCHANGED <<codec, program, call, wire, compiler, other>>
  \/ Finish /\ UNCHANGED <<codec, program, call, wire, compiler, other>>

----------------------------------------------------------------------------
(* The iteration ceiling: programs that never halt, and programs that halt  *)
(* after exactly max_iterations dispatches, one more, and a few less.       *)

\* n; L: 1; Sub; Dup; JumpIfFalse end; Jump L; end: tail
\* which dispatches 5 * n instructions before it reaches `tail`
CeilingPrograms ==
  LET Countdown(n, tail) ==
        LET counter == emit_f64(emit_opcode(NewProgram, "PushNumber"), Whole(n))
            top == position(counter)
            minus == emit_opcode(emit_opcode(
                       emit_f64(emit_opcode(counter, "PushNumber"), Whole(1)),
                       "Sub"), "Dup")
            test == emit_u32(emit_opcode(minus, "JumpIfFalse"), position(minus) + 10)
            back == emit_u32(emit_opcode(test, "Jump"), top)
        IN [back EXCEPT !.code = @ \o tail]
  IN
  {[constants |-> <<>>, code |-> <<to_byte("Jump"), 0, 0, 0, 0>>],
   Countdown(DEFAULT_MAX_ITERATIONS \div 5, <<>>),
   Countdown(DEFAULT_MAX_ITERATIONS \div 5, <<to_byte("End")>>),
   Countdown(DEFAULT_MAX_ITERATIONS \div 5 - 1, <<to_byte("End")>>)}

\* `loop { _pipe }`, and a loop that counts down from MaxLoop
CeilingSources ==
  {<<[kind |-> "Loop", condition |-> <<>>, body |-> Var(PIPE_VARIABLE)]>>,
   <<PipeInto(Num(MaxLoop), <<120>>),
     [kind |-> "Loop", condition |-> <<Var(<<120>>)>>,
      body |-> PipeInto(Binary2("Subtract", Var(<<120>>), Num(1)), <<120>>)]>>}

CeilingNext ==
  \/ \E nodes \in CeilingSources :
       /\ exec.state = "none"
       /\ compiler.out = NoCall
       /\ Compile(nodes)
       /\ UNCHANGED <<codec, program, call, wire, vm, exec, other>>
  \/ /\ compiler.out # NoCall /\ compiler.out.ok
     /\ VmNew(compiler.out.val)
     /\ UNCHANGED <<codec, program, call, wire, compiler, other>>
  \/ \E p \in CeilingPrograms :
       /\ compiler.out = NoCall
       /\ VmNew(p)
       /\ UNCHANGED <<codec, program, call, wire, compiler, other>>
  \/ Execute /\ UNCHANGED <<codec, program, call, wire, compiler, other>>
  \/ Run /\ UNCHANGED <<codec, program, call, wire, compiler, other>>
  \/ Finish /\ UNCHANGED <<codec, program, call, wire, compiler, other>>

----------------------------------------------------------------------------
(* The code buffer driven on its own: bytes are emitted, and patch_u32 is   *)
(* called at every position of the buffer, in range or not.  call.before    *)
(* is the code before the call; the slice code[position..position + 4]      *)
(* panics when it does not lie inside the buffer.                           *)

MaxPatchCode == 5     \* bytes emitted into a buffer that is patched

\* program.emit_u8(value)
EmitByte(value) ==
  /\ Len(program.code) < MaxPatchCode
  /\ program' = emit_u8(program, value)
  /\ call' = [fn |-> "emit_u8", before |-> program.code]

\* program.patch_u32(position, value)
Patch(pos, value) ==
  IF pos + 4 <= Len(program.code)
    THEN /\ program' = patch_u32(program, pos, value)
         /\ call' = [fn |-> "patch_u32", before |-> program.code,
                     position |-> pos, value |-> value, panicked |-> FALSE]
  ELSE /\ program' = program
       /\ call' = [fn |-> "patch_u32", before |-> program.code,
                   position |-> pos, value |-> value, panicked |-> TRUE]

PatchNext ==
  \/ \E value \in {0, 255} :
       EmitByte(value) /\ UNCHANGED <<codec, wire, compiler, vm, exec, other>>
  \/ \E pos \in 0..Len(program.code), value \in {0, 16909060} :
       Patch(pos, value) /\ UNCHANGED <<codec, wire, compiler, vm, exec, other>>

----------------------------------------------------------------------------
(* Two VMs made from one Program, each owned by a caller of its own; the    *)
(* callers' steps interleave.  `vm` and `exec` are the instance whose       *)
(* caller takes the next step, `other` is the instance that waits; Switch   *)
(* is the scheduler giving the processor to the other caller.               *)

\* a second instance that is handed the state of the first
SecondSharing(m) == m

\* VM::new(program.clone()) for the Program that m was made from
Second(m) == NewVM(m.program)

\* a second VM is made from the Program of the first
VmNewSecond ==
  /\ exec.state # "none"
  /\ other.exec.state = "none"
  /\ other' = [vm |-> Second(vm), exec |-> [state |-> "idle", calls |-> 0]]
  /\ UNCHANGED <<vm, exec>>

\* the other caller runs next
Switch ==
  /\ other.exec.state # "none"
  /\ vm' = other.vm
  /\ exec' = other.exec
  /\ other' = [vm |-> vm, exec |-> exec]

PairNext ==
  \/ LET \* programs whose run asks the world nothing
         PairPrograms ==
          {[constants |-> << <<120>> >>, code |-> code] :
             code \in {\* 1 piped into x; x + 2
                       <<to_byte("PushNumber"), 63, 240, 0, 0, 0, 0, 0, 0,
                         to_byte("StoreVar"), 0, 0, 0, 0,
                         to_byte("LoadVar"), 0, 0, 0, 0,
                         to_byte("PushNumber"), 64, 0, 0, 0, 0, 0, 0, 0,
                         to_byte("Add"), to_byte("End")>>,
                       \* x made immutable, then stored to
                       <<to_byte("PushNull"), to_byte("Dup"),
                         to_byte("StoreImmutable"), 0, 0, 0, 0,
                         to_byte("StoreVar"), 0, 0, 0, 0>>,
                       \* a call and the return from it
                       <<to_byte("PushBool"), 1,
                         to_byte("Call"), 0, 0, 0, 0, 0,
                         to_byte("Return"), to_byte("PushString"), 0, 0, 0, 0>>,
                       \* 1 / 0
                       <<to_byte("PushNumber"), 63, 240, 0, 0, 0, 0, 0, 0,
                         to_byte("PushNumber"), 0, 0, 0, 0, 0, 0, 0, 0,
                         to_byte("Div")>>}}
     IN \E p \in PairPrograms :
          VmNew(p) /\ UNCHANGED <<codec, program, call, wire, compiler, other>>
  \/ VmNewSecond /\ UNCHANGED <<codec, program, call, wire, compiler>>
  \/ Switch /\ UNCHANGED <<codec, program, call, wire, compiler>>
  \/ Execute /\ UNCHANGED <<codec, program, call, wire, compiler, other>>
  \/ Run /\ UNCHANGED <<codec, program, call, wire, compiler, other>>
  \/ Finish /\ UNCHANGED <<codec, program, call, wire, compiler, other>>

----------------------------------------------------------------------------
(* One Compiler used for several calls of compile: sources that fail and    *)
(* sources that do not, in any order, and the program of a successful call  *)
(* run by a VM.                                                             *)

RetryNext ==
  \/ LET RetrySources ==
          {<<Num(1)>>,
           <<PipeInto(Num(2), <<120>>), [kind |-> "Output", value |-> Var(<<120>>)]>>,
           <<[kind |-> "Loop", condition |-> <<Num(1)>>,
              body |-> [kind |-> "Length", value |-> Str(<<97>>)]]>>}
            \cup {<<node>> : node \in {n \in RefusedNodes :
                                         /\ n.kind \in {"Modulo", "Length", "Index",
                                                         "Output"}
                                         /\ n.kind = "Output"
                                              => n.value.kind \in {"Length", "Index"}}}
     IN \E nodes \in RetrySources :
          /\ exec.state = "none"
          /\ Compile(nodes)
          /\ UNCHANGED <<codec, program, call, wire, vm, exec, other>>
  \/ /\ compiler.out # NoCall /\ compiler.out.ok
     /\ VmNew(compiler.out.val)
     /\ UNCHANGED <<codec, program, call, wire, compiler, other>>
  \/ Execute /\ UNCHANGED <<codec, program, call, wire, compiler, other>>
  \/ Run /\ UNCHANGED <<codec, program, call, wire, compiler, other>>
  \/ Finish /\ UNCHANGED <<codec, program, call, wire, compiler, other>>

----------------------------------------------------------------------------
(* Specifications                                                           *)

SpecCodec == Init /\ [][CodecNext]_vars

SpecContainer == ContainerInit /\ [][ContainerNext]_vars

SpecWire == WireInit /\ [][WireNext]_vars

SpecRaw == Init /\ [][RawNext]_vars

SpecCompiled == Init /\ [][CompiledNext]_vars

SpecCeiling == Init /\ [][CeilingNext]_vars

SpecRetry == Init /\ [][RetryNext]_vars

SpecPair == Init /\ [][PairNext]_vars

SpecPatch == Init /\ [][PatchNext]_vars

----------------------------------------------------------------------------
(* Properties of the codec                                                  *)

\* C1: decoding the byte of any opcode gives that opcode back, and no other
\* opcode has the same byte (to_byte is injective).
OpcodeRoundTrip ==
  codec.fn = "to_byte" =>
    /\ codec.res = Ok(codec.op)
    /\ \A another \in Opcode : to_byte(another) = codec.byte => another = codec.op

\* the last variant of the enum was encoded and decoded back
OpcodeRoundTripWitness ==
  codec.fn = "to_byte" /\ codec.op = "Infinity" /\ codec.res = Ok("Infinity")


\* C2: every byte the VM fetches (each of 0..255 is) either fails to decode
\* with a BytecodeError or decodes to the variant that encodes to it, so a
\* byte no variant encodes never decodes; and an execute() that has fetched
\* such a byte has returned that BytecodeError with the VM exactly as it was
\* before the fetch (no handler ran: the pc is still on the byte, the stack
\* and the variables are untouched).
UnknownByteRejected ==
  (exec.state \in {"running", "broken", "returned"} /\ exec.fetched \in Byte)
    => /\ IF from_byte(exec.fetched).ok
            THEN to_byte(from_byte(exec.fetched).val) = exec.fetched
          ELSE from_byte(exec.fetched).kind = "BytecodeError"
       /\ (\A op \in Opcode : to_byte(op) # exec.fetched)
            => /\ ~from_byte(exec.fetched).ok
               /\ exec.state = "returned"
               /\ exec.result = from_byte(exec.fetched)
               /\ exec.result.kind = "BytecodeError"
               /\ vm = exec.pre
               /\ vm.program.code[vm.pc + 1] = exec.fetched

\* an execute() that fetched a byte no variant encodes, after an instruction
\* that had pushed a value
UnknownByteRejectedWitness ==
  /\ exec.state = "returned"
  /\ exec.fetched \in Byte
  /\ \A op \in Opcode : to_byte(op) # exec.fetched
  /\ exec.pre.stack # <<>>

----------------------------------------------------------------------------
(* Properties of the constant pool                                          *)

\* C3: no two indices of the pool hold equal strings; add_constant returns
\* the index the string was first given, which addresses the string; adding
\* a string already present leaves the pool as it was; no call moves a
\* string that was in the pool.
PoolDeduplicated ==
  /\ \A i, j \in 1..Len(program.constants) :
       program.constants[i] = program.constants[j] => i = j
  /\ call.fn = "add_constant" =>
       /\ call.idx < Len(program.constants)
       /\ program.constants[call.idx + 1] = call.value
       /\ call.idx = call.first[call.value]
       /\ (\E i \in 1..Len(call.before) : call.before[i] = call.value)
            => program.constants = call.before
       /\ Len(program.constants) >= Len(call.before)
       /\ \A i \in 1..Len(call.before) :
            program.constants[i] = call.before[i]

\* a string that sits at index 1 of a pool of three is added again
PoolDeduplicatedWitness ==
  /\ call.fn = "add_constant"
  /\ Len(call.before) = 3 /\ call.before[2] = call.value
  /\ call.idx = 1 /\ Len(program.constants) = 3

----------------------------------------------------------------------------
(* Properties of the container format                                       *)

Deserialized == wire.res # NoCall

\* C4: deserializing the untouched serialization of a program succeeds and
\* gives back its constants and its code, in order; the whole stream is read.
SerializationRoundTrip ==
  (wire.stage = "written" /\ Deserialized) =>
    /\ wire.res.out.res = Ok(wire.p)
    /\ wire.res.out.pos = Len(wire.stream)

\* a program with two constants (one of them two bytes long) and two code
\* bytes went through serialize and deserialize
SerializationRoundTripWitness ==
  /\ wire.stage = "written" /\ Deserialized
  /\ wire.p.constants = <<<<195, 169>>, <<>>>> /\ wire.p.code = <<255, 0>>
  /\ wire.res.out.res.ok

\* C5: a stream whose first four bytes are not the magic number, or whose
\* fifth byte is not the version, is rejected with a BytecodeError, and the
\* reader has not gone past the header.
BadHeaderRejected ==
  Deserialized =>
    LET r == wire.stream IN
      (\/ Len(r) >= 4 /\ SubSeq(r, 1, 4) # MAGIC_NUMBER
       \/ Len(r) >= 5 /\ r[5] # VERSION)
      => /\ ~wire.res.out.res.ok
         /\ wire.res.out.res.kind = "BytecodeError"
         /\ wire.res.out.pos <= HeaderLen

\* a complete stream with a wrong last magic byte was rejected
BadHeaderRejectedWitness ==
  /\ Deserialized /\ wire.stage = "corrupted"
  /\ Len(wire.stream) = Len(serialize(wire.p)) /\ wire.p.code # <<>>
  /\ wire.stream[4] # MAGIC_NUMBER[4] /\ wire.stream[5] = VERSION
  /\ ~wire.res.out.res.ok

\* C6: deserializing a strict prefix of a serialization fails with an
\* IoError; no program comes back.
TruncatedIsIoError ==
  (wire.stage = "truncated" /\ Deserialized) =>
    /\ ~wire.res.out.res.ok
    /\ wire.res.out.res.kind = "IoError"

\* a stream that lacks only its last code byte was deserialized
TruncatedIsIoErrorWitness ==
  /\ wire.stage = "truncated" /\ Deserialized
  /\ wire.p.constants # <<>> /\ wire.p.code # <<>>
  /\ Len(wire.stream) = Len(serialize(wire.p)) - 1
  /\ ~wire.res.out.res.ok

----------------------------------------------------------------------------
(* Properties of compiled programs run by the VM                            *)

\* C7: stack balance.  Whatever single node compile accepted, an execute()
\* from the empty stack of a new VM that returned Ok left the loop with
\* exactly one value on the stack.
StackBalance ==
  (/\ exec.state = "returned" /\ exec.calls = 1 /\ exec.result.ok
   /\ Len(compiler.nodes) = 1)
    => exec.depth = 1

\* Immutable { name: "x", value: Literal(Number(1.0)) } was compiled and run:
\* execute() returned Ok and the stack was empty when the loop was left
StackBalanceBroken ==
  /\ compiler.nodes = <<[kind |-> "Immutable", name |-> <<120>>, value |-> Num(1)]>>
  /\ exec.state = "returned" /\ exec.calls = 1 /\ exec.result.ok
  /\ exec.depth = 0

\* C8: patch correctness of conditionals.  For a compiled IfThen with an
\* else branch the condition's value, tested by the JumpIfFalse at `test`,
\* decides: when it is truthy the pc goes to the first instruction of the
\* then branch, stays in that branch up to the Jump that closes it, and that
\* Jump lands on `after`, with no position of the else branch ever
\* dispatched; when it is falsy the pc goes to the first instruction of the
\* else branch and stays in it until it reaches `after`, with no position of
\* the then branch (its closing Jump included) ever dispatched.  A run that
\* returned Ok dispatched the instruction at `after`.
IfThenPatched ==
  \A i \in 1..Len(compiler.nodes) :
    (/\ exec.state \in {"running", "broken", "returned"}
     /\ compiler.nodes[i].kind = "IfThen"
     /\ compiler.nodes[i].else_branch # <<>>)
      => LET size(x) == Len(compile_node(NewCompiler, x).c.program.code)
             node == compiler.nodes[i]
             test == Len(compile_nodes(NewCompiler,
                           SubSeq(compiler.nodes, 1, i - 1)).c.program.code)
                       + size(node.condition)
             then_start == test + 5
             jump == then_start + size(node.then_branch)
             else_start == jump + 5
             after == else_start + size(node.else_branch[1])
             tested == exec.visits[test] > 0
             truthy == exec.truthy[test] > 0
             prev == exec.pre.pc
             stepped == exec.state = "running" /\ exec.iteration_count > 0
         IN /\ exec.visits[test] <= 1
            /\ (tested /\ truthy) =>
                 /\ \A pos \in else_start..(after - 1) : exec.visits[pos] = 0
                 /\ (stepped /\ prev = test) => vm.pc = then_start
                 /\ (stepped /\ prev >= then_start /\ prev < jump)
                      => (vm.pc >= then_start /\ vm.pc <= jump)
                 /\ (stepped /\ prev = jump) => vm.pc = after
            /\ (tested /\ ~truthy) =>
                 /\ \A pos \in then_start..(else_start - 1) : exec.visits[pos] = 0
                 /\ (stepped /\ prev = test) => vm.pc = else_start
                 /\ (stepped /\ prev >= else_start /\ prev < after)
                      => (vm.pc >= else_start /\ vm.pc <= after)
            /\ (exec.state = "returned" /\ exec.result.ok /\ exec.calls = 1)
                 => /\ tested /\ exec.visits[after] = 1
                    /\ truthy => exec.visits[jump] = 1
                    /\ (truthy /\ jump > then_start)
                         => exec.visits[then_start] = 1
                    /\ (~truthy /\ after > else_start)
                         => exec.visits[else_start] = 1

\* a conditional on "" between two other statements ran to the end of the
\* program: the value of its else branch is on the stack, between those of
\* the statements around it, and the 7 of its then branch is not
IfThenPatchedWitness ==
  /\ Len(compiler.nodes) = 3
  /\ compiler.nodes[2].kind = "IfThen"
  /\ compiler.nodes[2].condition = Str(<<>>)
  /\ compiler.nodes[2].then_branch = Num(7)
  /\ compiler.nodes[2].else_branch = <<[kind |-> "Output", value |-> Str(<<98>>)]>>
  /\ exec.state = "returned" /\ exec.calls = 1
  /\ exec.result = Ok(Number(Whole(9)))
  /\ vm.stack = <<Number(Whole(9)), String(<<98>>)>>

\* C9: loop bound.  For a compiled Loop with a condition, tested by the
\* JumpIfFalse at `test`: a truthy value sends the pc to the body, a falsy
\* one to `after`, the first instruction after the LoopEnd; the LoopEnd
\* sends the pc back to the loop's start; the body has been entered as
\* often as the condition has been truthy; and in a run that returned Ok
\* the condition was truthy N times and then falsy once, the body and the
\* back-edge ran N times, and the instruction at `after` was dispatched.
LoopBounded ==
  \A i \in 1..Len(compiler.nodes) :
    (/\ exec.state \in {"running", "broken", "returned"}
     /\ compiler.nodes[i].kind = "Loop"
     /\ compiler.nodes[i].condition # <<>>)
      => LET size(x) == Len(compile_node(NewCompiler, x).c.program.code)
             node == compiler.nodes[i]
             start == Len(compile_nodes(NewCompiler,
                            SubSeq(compiler.nodes, 1, i - 1)).c.program.code)
             test == start + 5 + size(node.condition[1])
             body == test + 5
             back == body + size(node.body)
             after == back + 5
             prev == exec.pre.pc
             stepped == exec.state = "running" /\ exec.iteration_count > 0
             N == exec.truthy[test]
         IN /\ (stepped /\ prev = test) =>
                 vm.pc = IF is_truthy(exec.pre.stack[Len(exec.pre.stack)])
                         THEN body ELSE after
            /\ (stepped /\ prev = back) => vm.pc = start
            /\ exec.visits[body] <= N /\ N <= exec.visits[body] + 1
            /\ exec.visits[back] <= exec.visits[body]
            /\ exec.visits[test] <= N + 1
            /\ (exec.state = "returned" /\ exec.result.ok /\ exec.calls = 1)
                 => /\ exec.visits[test] = N + 1
                    /\ exec.visits[body] = N
                    /\ exec.visits[back] = N
                    /\ exec.visits[after] = 1

\* a loop whose condition was truthy MaxLoop times ran to the end
LoopBoundedWitness ==
  /\ Len(compiler.nodes) = 3
  /\ compiler.nodes[2].kind = "Loop"
  /\ exec.state = "returned" /\ exec.calls = 1 /\ exec.result.ok
  /\ exec.truthy[Len(compile_nodes(NewCompiler,
                       <<compiler.nodes[1]>>).c.program.code)
                 + 5 + Len(compile_node(NewCompiler,
                             compiler.nodes[2].condition[1]).c.program.code)]
       = MaxLoop
  /\ exec.result.val = Number(Whole(0))

\* C10: iteration ceiling.  One execute() call dispatches at most
\* max_iterations = 10000 instructions; it returns "Maximum iteration count
\* exceeded" exactly when, 10000 instructions dispatched, the loop condition
\* still held (the program would need more), and never with fewer
\* dispatched.  And the call terminates: each pass of its loop either
\* returns or adds one to an iteration count that never passes 10001, and
\* the pass taken at count 10000 is there to take and returns the error.
IterationCeiling ==
  /\ [](exec.state \in {"running", "broken", "returned"} =>
          /\ vm.max_iterations = DEFAULT_MAX_ITERATIONS
          /\ exec.dispatched <= DEFAULT_MAX_ITERATIONS
          /\ exec.iteration_count <= DEFAULT_MAX_ITERATIONS + 1
          /\ (exec.result = RuntimeError("Maximum iteration count exceeded"))
               <=> /\ exec.state = "returned"
                   /\ exec.iteration_count = DEFAULT_MAX_ITERATIONS + 1
          /\ (exec.iteration_count = DEFAULT_MAX_ITERATIONS + 1)
               => /\ exec.dispatched = DEFAULT_MAX_ITERATIONS
                  /\ vm = exec.pre
                  /\ vm.pc < Len(vm.program.code)
          /\ (/\ exec.state = "running"
              /\ exec.iteration_count = DEFAULT_MAX_ITERATIONS
              /\ vm.pc < Len(vm.program.code)) => ENABLED Run)
  /\ [][(exec.state \in {"running", "broken"}) =>
          /\ \/ exec'.state = "returned"
             \/ exec'.iteration_count = exec.iteration_count + 1
          /\ (/\ exec.iteration_count = DEFAULT_MAX_ITERATIONS
              /\ vm.pc < Len(vm.program.code))
               => exec'.result
                    = RuntimeError("Maximum iteration count exceeded")]_vars

\* the compiled `loop { _pipe }` was stopped by the ceiling
IterationCeilingWitness ==
  /\ compiler.out # NoCall
  /\ Len(compiler.nodes) = 1
  /\ exec.state = "returned"
  /\ exec.result = RuntimeError("Maximum iteration count exceeded")
  /\ exec.dispatched = DEFAULT_MAX_ITERATIONS

----------------------------------------------------------------------------
(* Properties of the VM on arbitrary programs                               *)

\* C11: the VM is robust against arbitrary input.  Whatever the code bytes
\* and the constant pool, execute() returns (the process neither panics nor
\* aborts in it); a byte is fetched only at an offset inside the code; a
\* pass whose operand would run past the end of the code returns
\* "Unexpected end of bytecode", and one whose constant index is outside the
\* pool returns "Invalid constant index".
VMRobust ==
  /\ exec.state # "aborted"
  /\ (exec.state \in {"running", "broken", "returned"}
        /\ exec.fetched \in Byte /\ from_byte(exec.fetched).ok)
      => LET opcode == from_byte(exec.fetched).val
             code == vm.program.code
             at == exec.pre.pc + 1
             width == CASE opcode \in {"PushBool", "Retry"} -> 1
                        [] opcode \in {"PushString", "LoadVar", "StoreVar",
                                       "StoreImmutable", "Jump", "JumpIfFalse",
                                       "JumpIfNull", "MakeArray", "MakeObject",
                                       "LoopStart", "LoopEnd", "ForEach",
                                       "TryStart", "Mock", "TestStart",
                                       "Import"} -> 4
                        [] opcode = "Call" -> 5
                        [] opcode = "PushNumber" -> 8
                        [] OTHER -> 0
         IN /\ exec.pre.pc < Len(code)
            /\ (at + width > Len(code))
                 => /\ exec.state = "returned"
                    /\ exec.result = RuntimeError("Unexpected end of bytecode")
            /\ (/\ opcode \in {"PushString", "LoadVar", "StoreVar",
                                "StoreImmutable", "TestStart", "Import"}
                /\ at + width <= Len(code)
                /\ u32_from_be_bytes(SubSeq(code, at + 1, at + 4))
                     >= Len(vm.program.constants))
                 => /\ exec.state = "returned"
                    /\ ~exec.result.ok
                    /\ exec.result.msg = "Invalid constant index"

\* MakeArray with the count 2^31 - 1 on an empty stack: the process died in
\* Vec::with_capacity and execute() never returned
VMRobustBroken ==
  /\ exec.state = "aborted"
  /\ vm.program.code = <<to_byte("MakeArray"), 127, 255, 255, 255>>
  /\ vm.stack = <<>>

OperandRejected(opcodes) ==
  (exec.state \in {"running", "broken", "returned", "aborted"}
     /\ exec.fetched \in Byte /\ from_byte(exec.fetched).ok
     /\ from_byte(exec.fetched).val \in opcodes)
    => LET stack == exec.pre.stack
           held == Len(stack)
           arity == IF from_byte(exec.fetched).val = "Root" THEN 1 ELSE 2
           right_bad == stack[held].t # "Number"
           left_bad == arity = 2 /\ stack[held - 1].t # "Number"
       IN (held >= arity /\ (right_bad \/ left_bad))
            => /\ exec.state = "returned"
               /\ ~exec.result.ok
               /\ exec.result.kind = "RuntimeError"
               /\ exec.result.msg = "Expected number, got"
               /\ exec.result.payload
                    = IF right_bad THEN stack[held] ELSE stack[held - 1]
               /\ vm.stack = SubSeq(stack, 1,
                                    held - (IF right_bad THEN 1 ELSE 2))
               /\ vm.variables = exec.pre.variables

\* C13 as claimed: each of Add, Sub, Mul, Div, Power, Root, Equal, NotEqual,
\* LessThan, GreaterThan and Approx, executed with an operand that is not a
\* Number, yields a runtime error naming the expected kind and pushes no
\* result.
NumericOperandsRequired ==
  OperandRejected({"Add", "Sub", "Mul", "Div", "Power", "Root", "Equal",
                   "NotEqual", "LessThan", "GreaterThan", "Approx"})

\* C13, amended: each of Add, Sub, Mul, Div, Power, Root, LessThan,
\* GreaterThan and Approx, executed with an operand that is not a Number,
\* yields the runtime error "Expected number, got <value>" and pushes no
\* result.  Equal and NotEqual take operands of every kind and push the
\* Boolean of their structural equality, values of different kinds being
\* unequal.  No operand is coerced.
ArithmeticOperandsRequired ==
  /\ OperandRejected({"Add", "Sub", "Mul", "Div", "Power", "Root",
                      "LessThan", "GreaterThan", "Approx"})
  /\ (exec.state = "running" /\ exec.iteration_count > 0
        /\ exec.fetched \in {to_byte("Equal"), to_byte("NotEqual")}
        /\ Len(exec.pre.stack) >= 2)
      => LET stack == exec.pre.stack
             held == Len(stack)
             same == /\ stack[held - 1].t = stack[held].t
                     /\ value_eq(stack[held - 1], stack[held])
         IN vm.stack = Append(SubSeq(stack, 1, held - 2),
                              Boolean(IF exec.fetched = to_byte("Equal")
                                      THEN same ELSE ~same))

\* "a" 1.0 Add: execute() returned the error that names the String
ArithmeticOperandsRequiredWitness ==
  /\ exec.state = "returned"
  /\ exec.fetched = to_byte("Add")
  /\ exec.pre.stack = <<String(<<97>>), Number(Whole(1))>>
  /\ exec.result = [ok |-> FALSE, kind |-> "RuntimeError",
                     msg |-> "Expected number, got",
                     payload |-> String(<<97>>)]
  /\ vm.stack = <<>>

\* C14: division by zero is a runtime error.  When Div was dispatched with
\* a Number equal to zero (0.0 or -0.0) on top of the stack, execute() has
\* returned an error and no result value was pushed; whatever number the
\* dividend is (zero, NaN and the infinities included) the error is
\* "Division by zero" and both operands are gone.
DivisionByZeroReported ==
  (exec.state \in {"running", "broken", "returned", "aborted"}
     /\ exec.fetched = to_byte("Div")
     /\ exec.pre.stack # <<>>
     /\ exec.pre.stack[Len(exec.pre.stack)].t = "Number"
     /\ IsZero(exec.pre.stack[Len(exec.pre.stack)].n))
    => LET stack == exec.pre.stack
           held == Len(stack)
       IN /\ exec.state = "returned"
          /\ ~exec.result.ok
          /\ exec.result.kind = "RuntimeError"
          /\ Len(vm.stack) < held
          /\ vm.stack = SubSeq(stack, 1, Len(vm.stack))
          /\ (held >= 2 /\ stack[held - 1].t = "Number")
               => /\ exec.result = RuntimeError("Division by zero")
                  /\ vm.stack = SubSeq(stack, 1, held - 2)

\* NaN -0.0 Div: execute() returned "Division by zero"
DivisionByZeroReportedWitness ==
  /\ exec.state = "returned"
  /\ exec.fetched = to_byte("Div")
  /\ exec.pre.stack = <<Number(Bits(<<127, 248, 0, 0, 0, 0, 0, 0>>)),
                        Number(Bits(<<128, 0, 0, 0, 0, 0, 0, 0>>))>>
  /\ exec.result = RuntimeError("Division by zero")
  /\ vm.stack = <<>>

----------------------------------------------------------------------------
(* Properties of the environment of the VM                                  *)

\* C15: a store to an immutable name fails without effect.  A name is in
\* the immutable set only once StoreImmutable has bound it; and when
\* StoreVar was dispatched for a name in that set, execute() has returned
\* the runtime error "Cannot modify immutable variable: <name>" with the
\* bindings, the immutable set and the operand stack as they were before
\* the instruction (the check precedes the pop).
ImmutableStoreFails ==
  (exec.state \in {"running", "broken", "returned", "aborted"})
    => /\ vm.immutable_vars \subseteq DOMAIN vm.variables
       /\ (/\ exec.fetched = to_byte("StoreVar")
           /\ exec.pre.pc + 5 <= Len(vm.program.code)
           /\ u32_from_be_bytes(SubSeq(vm.program.code, exec.pre.pc + 2,
                                       exec.pre.pc + 5))
                < Len(vm.program.constants)
           /\ vm.program.constants[
                 u32_from_be_bytes(SubSeq(vm.program.code, exec.pre.pc + 2,
                                          exec.pre.pc + 5)) + 1]
                \in exec.pre.immutable_vars)
          => /\ exec.state = "returned"
             /\ exec.result
                  = [ok |-> FALSE, kind |-> "RuntimeError",
                     msg |-> "Cannot modify immutable variable",
                     payload |-> vm.program.constants[
                       u32_from_be_bytes(SubSeq(vm.program.code,
                         exec.pre.pc + 2, exec.pre.pc + 5)) + 1]]
             /\ vm.variables = exec.pre.variables
             /\ vm.immutable_vars = exec.pre.immutable_vars
             /\ vm.stack = exec.pre.stack

\* Immutable("PI", 3.14), then 4 piped into PI: the store returned the
\* error, PI is still 3.14 and the 4 and its copy are still on the stack
ImmutableStoreFailsWitness ==
  /\ exec.state = "returned" /\ exec.calls = 1
  /\ exec.fetched = to_byte("StoreVar")
  /\ ~exec.result.ok
  /\ exec.result.msg = "Cannot modify immutable variable"
  /\ exec.result.payload = <<80, 73>>
  /\ vm.variables[<<80, 73>>]
       = Number(Bits(<<64, 9, 30, 184, 81, 235, 133, 31>>))
  /\ vm.stack = <<Number(Whole(4)), Number(Whole(4))>>

\* C16: marking a name immutable twice fails.  When StoreImmutable was
\* dispatched, with a value on the stack, for a name already in the
\* immutable set, execute() has returned a runtime error and the name is
\* bound to the value it had.
ImmutableOnce ==
  (/\ exec.state \in {"running", "broken", "returned", "aborted"}
   /\ exec.fetched = to_byte("StoreImmutable")
   /\ exec.pre.stack # <<>>
   /\ exec.pre.pc + 5 <= Len(vm.program.code)
   /\ u32_from_be_bytes(SubSeq(vm.program.code, exec.pre.pc + 2,
                               exec.pre.pc + 5))
        < Len(vm.program.constants)
   /\ vm.program.constants[
         u32_from_be_bytes(SubSeq(vm.program.code, exec.pre.pc + 2,
                                  exec.pre.pc + 5)) + 1]
        \in exec.pre.immutable_vars)
    => /\ exec.state = "returned"
       /\ ~exec.result.ok
       /\ exec.result.kind = "RuntimeError"
       /\ vm.variables = exec.pre.variables

\* Immutable("PI", 3.14) and then Immutable("PI", 4): the second
\* StoreImmutable went through, and PI is 4
ImmutableTwice ==
  /\ exec.state = "running" /\ exec.calls = 1
  /\ exec.fetched = to_byte("StoreImmutable")
  /\ <<80, 73>> \in exec.pre.immutable_vars
  /\ exec.pre.variables[<<80, 73>>]
       = Number(Bits(<<64, 9, 30, 184, 81, 235, 133, 31>>))
  /\ vm.variables[<<80, 73>>] = Number(Whole(4))

----------------------------------------------------------------------------
(* Properties of repeated calls of execute() on one VM                      *)

\* C17: each execute() starts from fresh state.  On entry to every call of
\* execute(), the second and later ones included, the program counter is 0
\* and the operand stack, the environment, the immutable set and the call
\* stack are empty.
ExecuteStartsFresh ==
  (exec.state \in {"running", "broken", "returned", "aborted"})
    => /\ exec.entry.pc = 0
       /\ exec.entry.stack = <<>>
       /\ exec.entry.variables = <<>>
       /\ exec.entry.immutable_vars = {}
       /\ exec.entry.call_stack = <<>>

\* the program of the single node 1 run twice: the first call returned
\* Ok(1), the second was entered at the end of the code and has returned
\* Ok(Null)
ExecuteStartsStale ==
  /\ exec.state = "returned" /\ exec.calls = 2
  /\ compiler.nodes = <<Num(1)>>
  /\ exec.previous = Ok(Number(Whole(1)))
  /\ exec.entry.pc = Len(vm.program.code)
  /\ exec.dispatched = 0
  /\ exec.result = Ok(Null)

\* C18: a failed execute() is not resumable.  A call of execute() that
\* follows one that returned an error does not dispatch the instructions
\* after the failing one with the stack or the environment that the failed
\* call left behind.
FailedRunNotResumed ==
  (/\ exec.state \in {"running", "broken", "returned", "aborted"}
   /\ exec.previous # NoCall
   /\ ~exec.previous.ok
   /\ exec.dispatched > 0)
    => ~(/\ exec.entry.pc > 0
         /\ \/ exec.entry.stack # <<>>
            \/ exec.entry.variables # <<>>)

\* 2 piped into x, then 1 / 0, then 5: the first call returned "Division by
\* zero"; the second went on behind the Div, with x bound and the stack of
\* the failed call, and has returned Ok(5)
FailedRunResumed ==
  /\ exec.state = "returned" /\ exec.calls = 2
  /\ ~exec.previous.ok /\ exec.previous.msg = "Division by zero"
  /\ exec.entry.pc > 0
  /\ exec.entry.stack # <<>>
  /\ <<120>> \in DOMAIN exec.entry.variables
  /\ exec.dispatched > 0
  /\ exec.result = Ok(Number(Whole(5)))

----------------------------------------------------------------------------
(* Properties of failing calls of compile                                   *)

\* C19: a failed compile() leaves no partial state.  When compile() has
\* returned an error, the Compiler's program (code and constants), its
\* function table and its loop-context stack are what they were before the
\* call; and the Program a call returns holds nothing from the failed calls
\* before it on the same Compiler.
FailedCompileLeavesNothing ==
  (compiler.out # NoCall)
    => /\ ~compiler.out.ok => compiler.c = compiler.before
       /\ compiler.out.ok => compiler.out.val = compiler.clean.program

\* compile of Length("a") failed on a new Compiler and left PushString "a"
\* in its program; compile of the node 1 on the same Compiler returned a
\* Program that starts with those bytes, and a VM has run it
FailedCompileLeavesBytes ==
  /\ compiler.compiles = 2
  /\ compiler.before.program.code # <<>>
  /\ compiler.before.program.constants = << <<97>> >>
  /\ compiler.nodes = <<Num(1)>>
  /\ compiler.out.ok
  /\ compiler.clean.program = compile(NewCompiler, <<Num(1)>>).out.val
  /\ compiler.out.val.code
       = compiler.before.program.code \o compiler.clean.program.code
  /\ exec.state = "returned" /\ exec.calls = 1
  /\ exec.dispatched > 2

\* the nodes that compile_node compiles as parts of `node`, for the kinds
\* that the refused sources are built of
Parts(node) ==
  CASE node.kind \in {"Output", "PipeInto", "Length"} -> <<node.value>>
    [] node.kind \in {"Add", "Modulo"} -> <<node.left, node.right>>
    [] node.kind = "Index" -> <<node.target, node.index>>
    [] node.kind = "Sequence" -> node.nodes
    [] node.kind = "IfThen" ->
         <<node.condition, node.then_branch>> \o node.else_branch
    [] node.kind = "Loop" -> node.condition \o <<node.body>>
    [] node.kind = "Function" -> <<node.body>>
    [] node.kind = "TryRescue" -> <<node.try_body>> \o node.rescue_body
    [] node.kind = "HttpPost" -> <<node.url>> \o node.body \o node.headers
    [] node.kind = "ArrayLiteral" -> node.elements
    [] node.kind = "ObjectLiteral" ->
         [i \in 1..Len(node.pairs) |-> node.pairs[i][2]]
    [] OTHER -> <<>>

RECURSIVE Unlowered(_)

\* the kind of the first node without a lowering that a walk through
\* `nodes`, parts before the whole, comes to; "none" when there is none
Unlowered(nodes) ==
  IF nodes = <<>> THEN "none"
  ELSE LET inside == Unlowered(Parts(Head(nodes)))
       IN IF inside # "none" THEN inside
          ELSE IF Head(nodes).kind \in {"Modulo", "Length", "Index"}
                 THEN Head(nodes).kind
          ELSE Unlowered(Tail(nodes))

\* C20: unsupported node shapes are rejected.  When the node sequence given
\* to compile holds, at any depth, a node without a lowering (Modulo,
\* Length, Index), compile has returned the CompilerError that names the
\* kind of the first such node it came to, and no Program.  Every refused
\* source of the model holds such a node.
UnsupportedRejected ==
  (compiler.out # NoCall)
    => /\ (\E i \in 1..Len(compiler.nodes) :
             compiler.nodes[i] \in RefusedNodes)
          => Unlowered(compiler.nodes) # "none"
       /\ Unlowered(compiler.nodes) = "Modulo"
          => compiler.out = CompilerError("Modulo not yet supported")
       /\ Unlowered(compiler.nodes) = "Length"
          => compiler.out = CompilerError("Length not yet supported")
       /\ Unlowered(compiler.nodes) = "Index"
          => compiler.out = CompilerError("Index not yet supported")

\* the source 1; Loop { body: Output(Index(x, 0)) }, the refused node two
\* levels down in the second node, was compiled and refused for the Index
UnsupportedRejectedWitness ==
  /\ compiler.nodes
       = <<Num(1),
           [kind |-> "Loop", condition |-> <<Num(0)>>,
            body |-> [kind |-> "Output",
                      value |-> [kind |-> "Index", target |-> Var(<<120>>),
                                 index |-> Num(0)]]]>>
  /\ Unlowered(compiler.nodes) = "Index"
  /\ compiler.out = CompilerError("Index not yet supported")
  /\ compiler.c.program.code # <<>>

----------------------------------------------------------------------------
(* Properties that relate the compiler's layout of the code to the VM       *)

\* C21: compiler and VM agree on operand widths.  In a run of a compiled
\* program from a new VM, every byte the VM fetched as an opcode is at an
\* offset where the compiler emitted an opcode.
WidthsAgree ==
  (/\ exec.state \in {"running", "broken", "returned", "aborted"}
   /\ exec.calls = 1
   /\ compiler.compiles = 1
   /\ exec.fetched # -1)
    => exec.pre.pc \in compiler.c.emitted

\* Retry { max_attempts: None, body: 1 } compiled to PushNumber 3, Retry,
\* PushNumber 1, End: the VM took the opcode byte of the second PushNumber
\* as the attempt count of Retry and then fetched the first byte of the
\* number 1.0, 0x3F, as an opcode
WidthsDisagree ==
  /\ compiler.nodes = <<[kind |-> "Retry", max_attempts |-> <<>>,
                         body |-> Num(1)]>>
  /\ exec.state = "returned" /\ exec.calls = 1
  /\ ~exec.result.ok
  /\ exec.pre.pc = 11
  /\ exec.fetched = 63
  /\ exec.pre.pc \notin compiler.c.emitted
  /\ vm.program.code[10] = to_byte("Retry")
  /\ vm.program.code[11] = to_byte("PushNumber")

----------------------------------------------------------------------------
(* Properties of what execute() returns                                     *)

\* C22: execute() returns the final top of the operand stack.  The loop is
\* left by `break` only at an End, or at a Return with an empty call stack;
\* and when execute() returns after the loop was left, by `break` or with
\* the pc at the end of the code, it returns Ok of the value that was on top
\* of the stack then, or Ok(Null) when the stack was empty; every other
\* return is an error.
ReturnsStackTop ==
  /\ [](exec.state = "broken"
          => \/ exec.fetched = to_byte("End")
             \/ /\ exec.fetched = to_byte("Return")
                /\ exec.pre.call_stack = <<>>)
  /\ [][(exec.state \in {"running", "broken"} /\ exec'.state = "returned")
          => IF exec.state = "broken" \/ vm.pc >= Len(vm.program.code)
               THEN /\ exec'.result
                         = Ok(IF vm.stack = <<>> THEN Null
                              ELSE vm.stack[Len(vm.stack)])
                    /\ exec'.depth = Len(vm.stack)
             ELSE ~exec'.result.ok]_vars

\* PushNumber x, then End or Return: execute() has returned Ok of the number
ReturnsStackTopWitness ==
  /\ exec.state = "returned" /\ exec.calls = 1
  /\ exec.fetched \in {to_byte("End"), to_byte("Return")}
  /\ exec.depth = 1
  /\ exec.result.ok
  /\ exec.result.val.t = "Number"
  /\ vm.stack = <<>>

RescueTargetUsed ==
  (/\ exec.state \in {"running", "broken", "returned", "aborted"}
   /\ exec.calls = 1
   /\ compiler.compiles = 1
   /\ exec.fetched # -1)
    => \A start \in compiler.c.emitted :
         LET code == vm.program.code
             target == u32_from_be_bytes(SubSeq(code, start + 2, start + 5))
         IN (/\ code[start + 1] = to_byte("TryStart")
             /\ target > start + 5
             /\ code[target] = to_byte("TryEnd")
             /\ start < exec.pre.pc /\ exec.pre.pc < target - 1)
              => ~(/\ exec.state = "returned"
                   /\ ~exec.result.ok
                   /\ exec.result.kind = "RuntimeError")

\* TryRescue { try_body: 1 / 0, rescue_body: Some(7) }: the Div between the
\* TryStart at 0 and the TryEnd raised "Division by zero", execute() has
\* returned it, and the rescue body at the target was never dispatched
RescueTargetIgnored ==
  /\ exec.state = "returned" /\ exec.calls = 1
  /\ compiler.nodes = <<[kind |-> "TryRescue",
                         try_body |-> Binary2("Divide", Num(1), Num(0)),
                         rescue_body |-> <<Num(7)>>]>>
  /\ vm.program.code[1] = to_byte("TryStart")
  /\ exec.fetched = to_byte("Div")
  /\ exec.result = RuntimeError("Division by zero")
  /\ LET target == u32_from_be_bytes(SubSeq(vm.program.code, 2, 5))
     IN /\ vm.program.code[target] = to_byte("TryEnd")
        /\ vm.program.code[target + 1] = to_byte("PushNumber")
        /\ exec.pre.pc < target - 1
        /\ exec.visits[target] = 0

----------------------------------------------------------------------------
(* Properties of two VMs made from one Program                              *)

----------------------------------------------------------------------------
(* Properties of single lowerings                                           *)

\* C26: Output of a string literal.  compile of [Output(Literal(String s))]
\* on a new Compiler returns a program whose constant pool is exactly [s];
\* when the VM has dispatched its Output the string s is on the stack, alone;
\* and the first execute() of the program returns Ok(String s).
OutputLiteral ==
  (/\ compiler.compiles = 1
   /\ Len(compiler.nodes) = 1
   /\ compiler.nodes[1].kind = "Output"
   /\ compiler.nodes[1].value.kind = "Literal"
   /\ compiler.nodes[1].value.lit.t = "String")
    => LET s == compiler.nodes[1].value.lit.s
       IN /\ compiler.out.ok
          /\ compiler.out.val.constants = <<s>>
          /\ (exec.state = "running" /\ exec.calls = 1
                /\ exec.fetched = to_byte("Output"))
               => vm.stack = <<String(s)>>
          /\ (exec.state = "returned" /\ exec.calls = 1)
               => exec.result = Ok(String(s))

\* Output("Hello") was compiled and run, and execute() has returned "Hello"
OutputLiteralWitness ==
  /\ compiler.nodes
       = <<[kind |-> "Output", value |-> Str(<<72, 101, 108, 108, 111>>)]>>
  /\ compiler.out.val.constants = << <<72, 101, 108, 108, 111>> >>
  /\ exec.state = "returned" /\ exec.calls = 1
  /\ exec.result = Ok(String(<<72, 101, 108, 108, 111>>))

----------------------------------------------------------------------------
(* Properties of patching                                                   *)

\* C27: patch_u32 overwrites four bytes in place.  A call of
\* patch_u32(position, value) leaves the code as long as it was; when it
\* returned, no byte outside [position, position + 4) has changed, those
\* four bytes are the big-endian bytes of value, and read_u32 of a VM at
\* that offset reads value back.
PatchInPlace ==
  (call # NoCall /\ call.fn = "patch_u32")
    => /\ Len(program.code) = Len(call.before)
       /\ call.panicked <=> call.position + 4 > Len(call.before)
       /\ call.panicked => program.code = call.before
       /\ ~call.panicked
            => /\ \A i \in 1..Len(program.code) :
                    (i - 1 < call.position \/ i - 1 >= call.position + 4)
                      => program.code[i] = call.before[i]
               /\ SubSeq(program.code, call.position + 1, call.position + 4)
                    = <<(call.value \div 16777216) % 256,
                        (call.value \div 65536) % 256,
                        (call.value \div 256) % 256,
                        call.value % 256>>
               /\ LET r == read_u32([NewVM(program) EXCEPT
                                      !.pc = call.position])
                  IN r.ok /\ r.val = call.value /\ r.vm.pc = call.position + 4

\* 0x01020304 was patched over bytes 1..4 of 255 255 255 255 255
PatchInPlaceWitness ==
  /\ call # NoCall /\ call.fn = "patch_u32"
  /\ call.before = <<255, 255, 255, 255, 255>>
  /\ call.position = 1 /\ call.value = 16909060
  /\ program.code = <<255, 1, 2, 3, 4>>

\* C28: patches go to reserved placeholders, once each.  In a compile() on
\* a new Compiler, whether it succeeds or fails, every patch_u32 was given
\* an offset at which an emit_u32(0) placeholder had been emitted before,
\* with all 4 bytes inside the code; none of the 4 bytes is an opcode; and
\* no offset was given to patch_u32 twice.
PatchesReserved ==
  (compiler.compiles = 1)
    => LET c == compiler.c
       IN \A i \in 1..Len(c.patched) :
            /\ c.patched[i].slot
            /\ c.patched[i].pos \in c.reserved
            /\ c.patched[i].pos + 4 <= Len(c.program.code)
            /\ \A at \in c.patched[i].pos..(c.patched[i].pos + 3) :
                 at \notin c.emitted
            /\ \A j \in 1..Len(c.patched) :
                 c.patched[j].pos = c.patched[i].pos => j = i

\* a loop with two loops in its body was compiled: six placeholders, each
\* patched once, the two of one loop with one value
PatchesReservedWitness ==
  /\ compiler.compiles = 1 /\ compiler.out.ok
  /\ Len(compiler.nodes) = 1
  /\ compiler.nodes[1].kind = "Loop"
  /\ compiler.nodes[1].body.kind = "Sequence"
  /\ Len(compiler.c.patched) = 6
  /\ {compiler.c.patched[i].pos : i \in 1..6} = compiler.c.reserved
  /\ \A i \in {1, 3, 5} :
       compiler.c.patched[i].value = compiler.c.patched[i + 1].value

\* C29: loop lowering resolves every exit site.  In the program that
\* compile() on a new Compiler returned, every LoopStart the compiler
\* emitted belongs to a Loop arm that ran to its end, and for each such arm:
\* the opcode at its start is LoopStart, the instruction that ends right
\* before its end is LoopEnd, the operand of the LoopStart is the end (the
\* offset of the first byte after the LoopEnd), the operand of the LoopEnd
\* is the start, and, when the node has a condition, the JumpIfFalse behind
\* the condition's code has the end as its operand.
LoopExitsResolved ==
  (compiler.compiles = 1 /\ compiler.out.ok)
    => LET code == compiler.out.val.code
           u32_at(pos) == u32_from_be_bytes(SubSeq(code, pos + 1, pos + 4))
           loops == compiler.c.loops
       IN /\ \A at \in compiler.c.emitted :
               code[at + 1] = to_byte("LoopStart")
                 => \E i \in 1..Len(loops) : loops[i].start = at
          /\ \A i \in 1..Len(loops) :
               LET loop == loops[i]
               IN /\ code[loop.start + 1] = to_byte("LoopStart")
                  /\ u32_at(loop.start + 1) = loop.end
                  /\ loop.end - 5 \in compiler.c.emitted
                  /\ code[loop.end - 4] = to_byte("LoopEnd")
                  /\ u32_at(loop.end - 4) = loop.start
                  /\ loop.condition # <<>>
                       => LET test ==
                                loop.start + 5
                                  + Len(compile_node(NewCompiler,
                                          loop.condition[1]).c.program.code)
                          IN /\ test \in compiler.c.emitted
                             /\ code[test + 1] = to_byte("JumpIfFalse")
                             /\ u32_at(test + 1) = loop.end

\* three loops, one in the other, each with a condition: the innermost at
\* 28..52, the middle one at 14..57, the outermost at 0..62
LoopExitsResolvedWitness ==
  /\ compiler.compiles = 1 /\ compiler.out.ok
  /\ Len(compiler.c.loops) = 3
  /\ \A i \in 1..3 : compiler.c.loops[i].condition = <<Num(0)>>
  /\ compiler.c.loops[3].start = 0
  /\ compiler.c.loops[3].start < compiler.c.loops[2].start
  /\ compiler.c.loops[2].start < compiler.c.loops[1].start
  /\ compiler.c.loops[1].end < compiler.c.loops[2].end
  /\ compiler.c.loops[2].end < compiler.c.loops[3].end
  /\ compiler.out.val.code[compiler.c.loops[3].end + 1] = to_byte("End")

\* C30: loop-context lifecycle.  Whenever compile() has returned, with a
\* program or with an error, the loop-context stack has the depth it had
\* when compile() was called (each context pushed by a Loop arm was popped
\* before compile_node returned from that node); and the exit sites of a
\* context that was popped are the sites of its own loop: the operand of
\* its LoopStart, and the operand of its condition's JumpIfFalse if it has
\* a condition.
LoopContextsPopped ==
  (compiler.out # NoCall /\ compiler.compiles = 1)
    => /\ Len(compiler.c.loop_stack) = Len(compiler.before.loop_stack)
       /\ \A i \in 1..Len(compiler.c.loops) :
            LET loop == compiler.c.loops[i]
            IN loop.exits
                 = IF loop.condition = <<>> THEN <<loop.start + 1>>
                   ELSE <<loop.start + 1,
                          loop.start + 6
                            + Len(compile_node(NewCompiler,
                                    loop.condition[1]).c.program.code)>>

\* Loop { condition: 0, body: Length("a") }: the body was refused, compile
\* has returned the error, and the context of the loop is still on the
\* stack, with its two exit sites
LoopContextLeft ==
  /\ compiler.compiles = 1
  /\ compiler.nodes = <<[kind |-> "Loop", condition |-> <<Num(0)>>,
                         body |-> [kind |-> "Length", value |-> Str(<<97>>)]]>>
  /\ compiler.out = CompilerError("Length not yet supported")
  /\ compiler.before.loop_stack = <<>>
  /\ compiler.c.loop_stack = <<[_start_pos |-> 0, end_patches |-> <<1, 15>>]>>

\* C31: lowering a Variable.  When the last node of a source that compiled
\* is a Variable, the program is the program of the nodes before it, and
\* then: for the name "_pipe" nothing but the End of compile() -- the code
\* and the constant pool are as the nodes before left them; for any other
\* name LoadVar and the index of the name in the pool as four bytes, the
\* name being added to the pool if it was not in it.
VariableLowered ==
  (/\ compiler.compiles = 1 /\ compiler.out.ok
   /\ compiler.nodes # <<>>
   /\ compiler.nodes[Len(compiler.nodes)].kind = "Variable")
    => LET nodes == compiler.nodes
           name == nodes[Len(nodes)].name
           front == compile_nodes(NewCompiler,
                                  SubSeq(nodes, 1, Len(nodes) - 1)).c.program
           out == compiler.out.val
       IN IF name = <<95, 112, 105, 112, 101>>
            THEN /\ out.code = front.code \o <<to_byte("End")>>
                 /\ out.constants = front.constants
          ELSE /\ out.constants
                    = IF \E i \in 1..Len(front.constants) :
                           front.constants[i] = name
                        THEN front.constants
                      ELSE Append(front.constants, name)
               /\ \E idx \in 0..(Len(out.constants) - 1) :
                    /\ out.constants[idx + 1] = name
                    /\ out.code = front.code \o <<to_byte("LoadVar")>>
                                    \o u32_to_be_bytes(idx)
                                    \o <<to_byte("End")>>

\* "_pipe" after a store to y: nothing is added to the 15 bytes of the
\* store but the End, and the pool holds y alone
VariableLoweredWitness ==
  /\ compiler.compiles = 1 /\ compiler.out.ok
  /\ Len(compiler.nodes) = 2
  /\ compiler.nodes[1] = PipeInto(Num(1), <<121>>)
  /\ compiler.nodes[2] = Var(<<95, 112, 105, 112, 101>>)
  /\ Len(compiler.out.val.code) = 16
  /\ compiler.out.val.code[16] = to_byte("End")
  /\ compiler.out.val.constants = << <<121>> >>

\* C32: a function declaration records the entry.  When the last node of a
\* source that compiled is Function { name, body }, `entry` being the offset
\* right behind the operand of the Jump that skips the body: the function
\* table of the compiler maps name to entry, the operand of that Jump is the
\* offset right behind the Return that ends the body, and when the program
\* has run to its end the variable `name` holds the number entry.
FunctionEntryRecorded ==
  (/\ compiler.compiles = 1 /\ compiler.out.ok
   /\ compiler.nodes # <<>>
   /\ compiler.nodes[Len(compiler.nodes)].kind = "Function")
    => LET nodes == compiler.nodes
           name == nodes[Len(nodes)].name
           code == compiler.out.val.code
           jump == position(compile_nodes(NewCompiler,
                              SubSeq(nodes, 1, Len(nodes) - 1)).c.program)
           entry == jump + 5
           skip == u32_from_be_bytes(SubSeq(code, jump + 2, jump + 5))
       IN /\ code[jump + 1] = to_byte("Jump")
          /\ name \in DOMAIN compiler.c.functions
          /\ compiler.c.functions[name] = entry
          /\ skip - 1 \in compiler.c.emitted
          /\ code[skip] = to_byte("Return")
          /\ (exec.state = "returned" /\ exec.result.ok)
               => /\ name \in DOMAIN vm.variables
                  /\ vm.variables[name] = Number(Whole(entry))

\* `1; fn f { 2 }` has run: the Jump is at 9 and the body at 14, the
\* variable f holds 14, and the function table has 9 for f
FunctionEntryIsJump ==
  /\ compiler.compiles = 1 /\ compiler.out.ok
  /\ compiler.nodes
       = <<Num(1), [kind |-> "Function", name |-> <<102>>, body |-> Num(2)]>>
  /\ compiler.out.val.code[10] = to_byte("Jump")
  /\ compiler.c.functions = [k \in {<<102>>} |-> 9]
  /\ exec.state = "returned" /\ exec.result.ok
  /\ vm.variables = [k \in {<<102>>} |-> Number(Whole(14))]

----------------------------------------------------------------------------
(* Properties of the control-flow opcodes                                   *)

\* C33: the control-flow opcodes assign their operand to the pc as an
\* absolute offset.  When the handler of a jump has run without an error,
\* `target` being the four bytes behind the opcode and `after` the offset
\* behind them: after Jump and LoopEnd the pc is target and the stack is as
\* it was; after JumpIfFalse the top value is gone and the pc is target if
\* that value was falsy and after if not; after JumpIfNull the stack is as
\* it was and the pc is target if the top value was Null and after if not.
\* And when the pc is then at or beyond the end of the code, the next thing
\* execute() does is return Ok.
JumpsAreAbsolute ==
  /\ []((/\ exec.state = "running"
         /\ exec.fetched \in {to_byte("Jump"), to_byte("LoopEnd"),
                               to_byte("JumpIfFalse"), to_byte("JumpIfNull")})
          => LET pre == exec.pre
                 target == u32_from_be_bytes(
                             SubSeq(pre.program.code, pre.pc + 2, pre.pc + 5))
                 after == pre.pc + 5
                 top == pre.stack[Len(pre.stack)]
             IN CASE exec.fetched \in {to_byte("Jump"), to_byte("LoopEnd")} ->
                       /\ vm.pc = target
                       /\ vm.stack = pre.stack
                  [] exec.fetched = to_byte("JumpIfFalse") ->
                       /\ vm.stack = SubSeq(pre.stack, 1, Len(pre.stack) - 1)
                       /\ vm.pc = IF is_truthy(top) THEN after ELSE target
                  [] exec.fetched = to_byte("JumpIfNull") ->
                       /\ vm.stack = pre.stack
                       /\ vm.pc = IF top = Null THEN target ELSE after)
  /\ [][(/\ exec.state = "running"
         /\ exec.fetched \in {to_byte("Jump"), to_byte("LoopEnd"),
                               to_byte("JumpIfFalse"), to_byte("JumpIfNull")}
         /\ vm.pc >= Len(vm.program.code)
         /\ exec' # exec)
          => /\ exec'.state = "returned"
             /\ exec'.result
                  = Ok(IF vm.stack = <<>> THEN Null
                       ELSE vm.stack[Len(vm.stack)])]_vars

\* false; JumpIfFalse 11: the jump was taken to an offset beyond the ten
\* bytes of the code, and execute() has returned Ok(Null)
JumpsAreAbsoluteWitness ==
  /\ exec.state = "returned"
  /\ exec.fetched = to_byte("JumpIfFalse")
  /\ exec.pre.stack = <<Boolean(FALSE)>>
  /\ exec.pre.pc = 2
  /\ Len(vm.program.code) = 10
  /\ vm.pc = 11
  /\ exec.result = Ok(Null)

\* C34: the truthiness projection.  `Falsy` being Null, false, the number
\* zero of either sign, the empty string, the empty array and the empty
\* map: is_truthy is false of the values in Falsy and true of every other
\* value the VM holds; and Not pushes whether its operand is in Falsy, And
\* whether neither operand is, Or whether not both are, JumpIfFalse takes
\* the jump exactly when the popped value is in Falsy, and Assert returns
\* the error "Assertion failed" exactly when the popped value is in Falsy.
TruthinessDecides ==
  LET Falsy(v) ==
        \/ v = Null
        \/ v = Boolean(FALSE)
        \/ v = Number(Whole(0))
        \/ v = Number(Bits(<<128, 0, 0, 0, 0, 0, 0, 0>>))
        \/ v = String(<<>>)
        \/ v = Array(<<>>)
        \/ v = Object(<<>>)
      pre == exec.pre
      held == Len(pre.stack)
      top == pre.stack[held]
      below == pre.stack[held - 1]
      result == vm.stack[Len(vm.stack)]
  IN /\ exec.state # "none"
       => \A i \in 1..Len(vm.stack) :
            is_truthy(vm.stack[i]) = ~Falsy(vm.stack[i])
     /\ (exec.state = "running" /\ exec.fetched = to_byte("Not"))
          => result = Boolean(Falsy(top))
     /\ (exec.state = "running" /\ exec.fetched = to_byte("And"))
          => result = Boolean(~Falsy(below) /\ ~Falsy(top))
     /\ (exec.state = "running" /\ exec.fetched = to_byte("Or"))
          => result = Boolean(~Falsy(below) \/ ~Falsy(top))
     /\ (exec.state = "running" /\ exec.fetched = to_byte("JumpIfFalse"))
          => vm.pc = IF Falsy(top)
                       THEN u32_from_be_bytes(SubSeq(pre.program.code,
                                                     pre.pc + 2, pre.pc + 5))
                     ELSE pre.pc + 5
     /\ (/\ exec.state \in {"running", "returned"}
         /\ exec.fetched = to_byte("Assert")
         /\ held > 0)
          => IF Falsy(top)
               THEN /\ exec.state = "returned"
                    /\ exec.result = RuntimeError("Assertion failed")
             ELSE /\ vm.stack = SubSeq(pre.stack, 1, held - 1)
                  /\ exec.state = "returned" => exec.result.ok

\* -0.0 and NaN under Or: the zero is false, the NaN is true, true is pushed
TruthinessDecidesWitness ==
  /\ exec.state = "running"
  /\ exec.fetched = to_byte("Or")
  /\ exec.pre.stack = <<Number(Bits(<<128, 0, 0, 0, 0, 0, 0, 0>>)),
                        Number(Bits(<<127, 248, 0, 0, 0, 0, 0, 0>>))>>
  /\ vm.stack = <<Boolean(TRUE)>>

----------------------------------------------------------------------------
(* Properties of the jump targets the compiler emits                        *)

\* C35: every placeholder is resolved.  When compile() on a new Compiler has
\* returned a program, every operand that was emitted as a placeholder has
\* been patched exactly once, with an offset behind the placeholder and
\* inside the program.
PlaceholdersResolved ==
  (compiler.compiles = 1 /\ compiler.out.ok)
    => LET c == compiler.c
       IN \A pos \in c.reserved :
            \E i \in 1..Len(c.patched) :
              /\ c.patched[i].pos = pos
              /\ c.patched[i].value >= pos + 4
              /\ c.patched[i].value < Len(compiler.out.val.code)
              /\ \A j \in 1..Len(c.patched) :
                   c.patched[j].pos = pos => j = i

\* try { 1 } without a rescue body has compiled: the operand of TryStart
\* was reserved, nothing was patched, and the program has 0 there
PlaceholderLeft ==
  /\ compiler.compiles = 1 /\ compiler.out.ok
  /\ compiler.nodes = <<[kind |-> "TryRescue", try_body |-> Num(1),
                         rescue_body |-> <<>>]>>
  /\ compiler.c.reserved = {1}
  /\ compiler.c.patched = <<>>
  /\ SubSeq(compiler.out.val.code, 1, 5) = <<to_byte("TryStart"), 0, 0, 0, 0>>

\* C36: jump targets are instructions.  In a program that compile() has
\* returned, the operand of every Jump, JumpIfFalse, JumpIfNull and LoopEnd
\* the compiler emitted is an offset at which the compiler emitted an
\* opcode, and is at most the offset of the End that closes the program.
TargetsAreInstructions ==
  (compiler.out # NoCall /\ compiler.out.ok)
    => LET code == compiler.out.val.code
       IN \A at \in compiler.c.emitted :
            code[at + 1] \in {to_byte("Jump"), to_byte("JumpIfFalse"),
                              to_byte("JumpIfNull"), to_byte("LoopEnd")}
              => LET target == u32_from_be_bytes(SubSeq(code, at + 2, at + 5))
                 IN /\ target \in compiler.c.emitted
                    /\ target <= Len(code) - 1
                    /\ code[Len(code)] = to_byte("End")

\* for x in 1 { _pipe }: the body emits nothing, the LoopEnd at 14 has its
\* own offset as its operand; and behind it the End at 19
TargetsAreInstructionsWitness ==
  /\ compiler.compiles = 1 /\ compiler.out.ok
  /\ compiler.nodes = <<[kind |-> "ForEach", variable |-> <<120>>,
                         collection |-> Num(1),
                         body |-> Var(PIPE_VARIABLE)]>>
  /\ SubSeq(compiler.out.val.code, 15, 20)
       = <<to_byte("LoopEnd"), 0, 0, 0, 14, to_byte("End")>>
  /\ 14 \in compiler.c.emitted

----------------------------------------------------------------------------
(* Properties of a compiled TryRescue on the path without a failure         *)

\* C37: a rescue body runs only after a failure.  In a run of the program
\* of one TryRescue with a rescue body, `rescue` being the operand of the
\* TryStart (the offset of the rescue body): as long as no error was
\* returned, no instruction of the rescue body was dispatched; and when the
\* run has returned Ok, the End behind the rescue body was dispatched.
RescueOnlyAfterFailure ==
  (/\ compiler.compiles = 1 /\ compiler.out # NoCall /\ compiler.out.ok
   /\ Len(compiler.nodes) = 1
   /\ compiler.nodes[1].kind = "TryRescue"
   /\ compiler.nodes[1].rescue_body # <<>>
   /\ exec.state \in {"running", "broken", "returned"})
    => LET code == vm.program.code
           rescue == u32_from_be_bytes(SubSeq(code, 2, 5))
           end == Len(code) - 1
       IN /\ \A pos \in rescue..(end - 1) : exec.visits[pos] = 0
          /\ (exec.state = "returned" /\ exec.result.ok)
               => exec.visits[end] = 1

\* try { 1 } rescue { 0 } has run: the body left 1 on the stack without an
\* error, the PushNumber of the rescue body at 15 was dispatched all the
\* same, and execute() returned the 0 of the rescue body
RescueRanWithoutFailure ==
  /\ compiler.compiles = 1 /\ compiler.out # NoCall /\ compiler.out.ok
  /\ compiler.nodes = <<[kind |-> "TryRescue", try_body |-> Num(1),
                         rescue_body |-> <<Num(0)>>]>>
  /\ exec.state = "returned"
  /\ u32_from_be_bytes(SubSeq(vm.program.code, 2, 5)) = 15
  /\ exec.visits[14] = 1
  /\ exec.visits[15] = 1
  /\ exec.depth = 2
  /\ vm.stack = <<Number(Whole(1))>>
  /\ exec.result = Ok(Number(Whole(0)))

----------------------------------------------------------------------------
(* Properties of a compiled ForEach                                         *)

\* C38: iteration over a collection ends.  When execute() has returned from
\* the program of a source that begins with a ForEach whose body is
\* `_pipe` or `output _pipe` (a body that raises no error), it has not
\* returned the error of the iteration ceiling: it has returned Ok, and the
\* instruction behind the LoopEnd of the ForEach was dispatched.
ForEachEnds ==
  (/\ compiler.compiles = 1 /\ compiler.out # NoCall /\ compiler.out.ok
   /\ compiler.nodes # <<>>
   /\ compiler.nodes[1].kind = "ForEach"
   /\ compiler.nodes[1].body
        \in {Var(PIPE_VARIABLE),
             [kind |-> "Output", value |-> Var(PIPE_VARIABLE)]}
   /\ exec.state = "returned")
    => LET after == position(compile_nodes(NewCompiler,
                               <<compiler.nodes[1]>>).c.program)
       IN /\ exec.result # RuntimeError("Maximum iteration count exceeded")
          /\ exec.result.ok
          /\ exec.visits[after] >= 1

\* for x in [1, 2] { output _pipe }; 5 has run: the LoopEnd at 29 was
\* dispatched 4,998 times, the PushNumber behind it at 34 never, and
\* execute() has returned the error of the iteration ceiling
ForEachLoopsToCeiling ==
  /\ compiler.compiles = 1 /\ compiler.out # NoCall /\ compiler.out.ok
  /\ Len(compiler.nodes) = 2
  /\ compiler.nodes[1].kind = "ForEach"
  /\ compiler.nodes[1].collection.kind = "ArrayLiteral"
  /\ exec.state = "returned"
  /\ exec.result = RuntimeError("Maximum iteration count exceeded")
  /\ vm.program.code[30] = to_byte("LoopEnd")
  /\ exec.visits[29] = 4998
  /\ vm.program.code[35] = to_byte("PushNumber")
  /\ exec.visits[34] = 0

----------------------------------------------------------------------------
(* Properties of a Compiler that is used for more than one compile()        *)

\* C39: compile() depends only on its input.  When compile(nodes) has
\* returned a program on a Compiler on which compile() had been called
\* before, that program is the program compile(nodes) returns on a new
\* Compiler: the same constants and the same code.
CompileDependsOnInput ==
  (compiler.compiles >= 2 /\ compiler.out.ok)
    => compiler.out.val = compile(NewCompiler, compiler.nodes).out.val

\* the second compile of the source `1` on one Compiler, the first having
\* returned its program of ten bytes: the second program has the ten bytes
\* of the first in front of its own
CompileKeepsEarlierProgram ==
  /\ compiler.compiles = 2 /\ compiler.out.ok
  /\ compiler.nodes = <<Num(1)>>
  /\ compiler.before.program.code
       = <<to_byte("PushNumber"), 63, 240, 0, 0, 0, 0, 0, 0, to_byte("End")>>
  /\ compiler.out.val.code
       = compiler.before.program.code \o compiler.before.program.code
  /\ compile(NewCompiler, compiler.nodes).out.val.code
       = compiler.before.program.code

----------------------------------------------------------------------------
(* Properties of Call and Return                                            *)

\* C40: Call and Return form a LIFO stack of return addresses.  After a Call
\* that read its four bytes of index and its byte of argument count, the pc
\* is the offset behind them (the next instruction), that offset is the new
\* last entry of the call stack, and the operand stack is as it was.  After
\* a Return on a call stack that was not empty, the pc is the last entry of
\* that stack and the entry is gone.  After a Return on an empty call stack
\* the loop is left, and execute() returns Ok of the top of the stack, or
\* Ok(Null) when the stack is empty.
CallReturnLifo ==
  LET pre == exec.pre
      calls == pre.call_stack
  IN /\ (exec.state = "running" /\ exec.fetched = to_byte("Call"))
          => /\ vm.pc = pre.pc + 6
             /\ vm.call_stack = Append(calls, pre.pc + 6)
             /\ vm.stack = pre.stack
     /\ (/\ exec.state \in {"running", "broken", "returned", "aborted"}
         /\ exec.fetched = to_byte("Return"))
          => IF calls # <<>>
               THEN /\ exec.state \in {"running", "returned"}
                    /\ vm.pc = calls[Len(calls)]
                    /\ vm.call_stack = SubSeq(calls, 1, Len(calls) - 1)
                    /\ exec.state = "running" => vm.stack = pre.stack
             ELSE /\ exec.state \in {"broken", "returned"}
                  /\ vm.call_stack = <<>>
                  /\ exec.state = "returned"
                       => exec.result = Ok(IF pre.stack = <<>> THEN Null
                                           ELSE pre.stack[Len(pre.stack)])

\* true; Call; Call; Return; Return: the Return at 14 found the addresses
\* 8 and 14 on the call stack and took the 14, the one pushed last
CallReturnLifoWitness ==
  /\ exec.state = "running"
  /\ exec.fetched = to_byte("Return")
  /\ exec.pre.call_stack = <<8, 14>>
  /\ exec.pre.pc = 14
  /\ vm.pc = 14
  /\ vm.call_stack = <<8>>
  /\ vm.stack = <<Boolean(TRUE)>>

====
